---- MODULE Spec2Model ----
(***************************************************************************)
(* Timeline segmentation engine of doit-movie2audio-play.                  *)
(*                                                                         *)
(*   scene_segmenter.segment_scenes          (SpecSeg)                     *)
(*   vad_analyzer.calculate_inverse_segments   (SpecInverse)               *)
(*   vad_analyzer.detect_non_dialogue_segments (SpecVad)                   *)
(*   audio_mixer.AudioMixer.mix_audio          (SpecMix, SpecMixPair)      *)
(*   audio_mixer.AudioMixer.adjust_segment_timing (SpecTiming)             *)
(*   main_orchestrator.process_movie           (SpecMovie, SpecVolume)     *)
(*   narration_generator.NarrationGenerator.adjust_audio_duration          *)
(*                                             (SpecDuration)              *)
(*   the merge loop of segment_scenes applied to its own result            *)
(*                                             (SpecMerge)                 *)
(*   calculate_inverse_segments applied to its own result                  *)
(*                                             (SpecRoundTrip)             *)
(*                                                                         *)
(* Times are integers.  The segmenter's thresholds are whole seconds       *)
(* (2.0 s, 1.0 s), so its clock counts seconds.  The VAD filter threshold  *)
(* is 0.5 s, so the VAD clock counts quarter seconds.  The two components  *)
(* never exchange a value inside this model.  The mixer's clock counts     *)
(* half seconds.                                                           *)
(*                                                                         *)
(* A Python Optional is a sequence of length at most one: <<>> is None and *)
(* <<v>> is the value v.                                                   *)
(***************************************************************************)
EXTENDS Integers, Sequences, FiniteSets, TLC

None == <<>>
Some(v) == <<v>>
IsNone(o) == o = <<>>
Val(o) == o[1]

Last(s) == s[Len(s)]

(***************************************************************************)
(* Bounds of the explored input space.                                     *)
(***************************************************************************)
\* the segmenter's timeline is 0..MaxTime seconds
MaxTime == 5
\* at most this many non-language intervals in an analysis result
MaxIntervals == 2
\* the audio is at most MaxDuration quarter seconds long
MaxDuration == 7
\* at most this many speech intervals reported by the VAD model
MaxSpeech == 2
\* the original audio track of the mixer is MaxMixTime half seconds long
MaxMixTime == 3
\* at most this many narrated segments in one call of the mixer
MaxNarrations == 2
\* min_gap of adjust_segment_timing is at most MaxGap half seconds
MaxGap == 2
MaxAudioLength == 10   \* narration and target durations, in tenths of a second

(***************************************************************************)
(* Program constants of scene_segmenter.py (seconds).                      *)
(***************************************************************************)
MERGE_THRESHOLD == 2
MIN_SCENE_DURATION == 1

\* Program constant of vad_analyzer.py: 0.5 s, in quarter seconds.
MIN_SEGMENT_DURATION == 2

NON_LANGUAGE_DESCRIPTION == "Non-language segment (music/effects)"
SCENE_CONTENT == "Scene content"
FINAL_SCENE == "Final scene"

(***************************************************************************)
(* data_structures.py                                                      *)
(***************************************************************************)
\* Scene(scene_id, start_time, end_time, description); the three optional
\* fields keep their default None in everything the segmenter builds.
Scene(id, s, e, d) ==
    [scene_id |-> id, start_time |-> s, end_time |-> e, description |-> d]

\* one (start, end) tuple of non_language_segments.  numeric = FALSE is a
\* tuple whose two members are strings, ("invalid", "data").
Tuple(s, e) == [start |-> s, end |-> e, numeric |-> TRUE]
StrTuple == [start |-> 0, end |-> 0, numeric |-> FALSE]

\* one dict of AnalysisResult.segments
Seg(s, e, t) == [start |-> s, end |-> e, text |-> t]

AnalysisResult(sc, nls, sg) ==
    [scenes |-> sc, non_language_segments |-> nls, segments |-> sg]

(***************************************************************************)
(* State.                                                                  *)
(***************************************************************************)
VARIABLES
    analysis_result,    \* the argument of segment_scenes (Optional)
    pc,                 \* position inside segment_scenes
    non_language_segments, \* the sorted local list (line 18)
    merged_segments,    \* line 26
    current_segment,    \* line 27 (Optional: unset before the merge)
    idx,                \* index of the next element of the running for loop
    final_scenes,       \* line 38
    scene_id,           \* line 39
    last_end,           \* line 40
    result,             \* the value returned to the caller (Optional)
    raised              \* the exception class that escaped, "" if none

VARIABLES
    entry,              \* the function of vad_analyzer.py that was called
    file_exists,        \* os.path.exists(audio_file_path)
    total_duration,     \* the duration argument, or what the probe reports
    speech_segments,    \* the speech intervals, in seconds (line 112)
    vpc,                \* position inside the called function
    sorted_speech,      \* speech_segments after line 51
    k,                  \* index of the next speech segment of the for loop
    current_time,       \* line 48
    non_speech,         \* line 47
    vad_result,         \* the value returned to the caller (Optional)
    vad_raised          \* the exception class that escaped, "" if none

VARIABLES
    mixer,              \* the fields of the one AudioMixer instance
    margs,              \* per call: the arguments of mix_audio
    mpc,                \* per call: position inside mix_audio
    clips,              \* per call: every clip object the call created,
                        \* in creation order; a clip's index is its identity
    clips_to_close,     \* per call: line 157 (clip identities)
    final_composite_list, \* per call: line 163 (clip identities)
    last_end_time,      \* per call: line 164
    sorted_segments,    \* per call: line 167 (Optional: unset before)
    seg_index,          \* per call: index of the next segment of the loop
    final_audio,        \* per call: the composite of line 218 (Optional)
    mix_result,         \* per call: the value returned (Optional)
    mix_raised,         \* per call: the exception that escaped, "" if none
    env_fault,          \* per call: the operation the environment made
                        \* fail, "none" while there was none
    made_dirs,          \* the directories os.makedirs created
    output_files        \* per output path: "absent", "partial", "complete"

VARIABLES
    segments,           \* the argument of adjust_segment_timing
    min_gap,            \* the argument of adjust_segment_timing
    tpc,                \* position inside adjust_segment_timing
    timing_sorted,      \* sorted(segments, ...) of line 268
    timing_index,       \* index of the next segment of the for loop
    adjusted_segments,  \* line 265
    timing_last_end,    \* line 266 (last_end)
    timing_result       \* the value returned to the caller (Optional)

VARIABLES
    movie_args,         \* per invocation: the arguments of process_movie
                        \* and what its collaborators will find
    movie_pc,           \* per invocation: position inside process_movie
    movie_scenes,       \* per invocation: scenes_with_descriptions, with
                        \* the narration_path process_scenes fills in
    movie_index,        \* per invocation: next scene of process_scenes
    movie_result,       \* per invocation: the value returned (Optional)
    mixer_call,         \* per invocation: the two volumes process_movie
                        \* passed to mix_audio (Optional)
    touched             \* every access to a file so far: which file, by
                        \* which invocation, read or write

VARIABLES
    audio_exists,       \* os.path.exists(audio_path), line 64
    current_duration,   \* the duration of the file at audio_path (line 77)
    target_duration,    \* the argument of adjust_audio_duration
    dpc,                \* position inside adjust_audio_duration
    speed_factor,       \* lines 82-88, a fraction (Optional: unset before)
    adjusted_duration,  \* the duration of the clip line 102 builds, a
                        \* fraction (Optional)
    duration_result,    \* the path returned: "audio_path" or "adjusted_path"
    duration_raised     \* the exception class that escaped, "" if none

VARIABLE
    earlier             \* when a function is applied to its own result:
                        \* the arguments of the passes before this one

segVars == <<analysis_result, pc, non_language_segments, merged_segments,
             current_segment, idx, final_scenes, scene_id, last_end, result,
             raised>>

vadVars == <<entry, file_exists, total_duration, speech_segments, vpc,
             sorted_speech, k, current_time, non_speech, vad_result,
             vad_raised>>

mixVars == <<mixer, margs, mpc, clips, clips_to_close, final_composite_list,
             last_end_time, sorted_segments, seg_index, final_audio,
             mix_result, mix_raised, env_fault, made_dirs, output_files>>

timVars == <<segments, min_gap, tpc, timing_sorted, timing_index,
             adjusted_segments, timing_last_end, timing_result>>

movVars == <<movie_args, movie_pc, movie_scenes, movie_index, movie_result,
             mixer_call, touched>>

durVars == <<audio_exists, current_duration, target_duration, dpc,
             speed_factor, adjusted_duration, duration_result,
             duration_raised>>

vars == <<segVars, vadVars, mixVars, timVars, movVars, durVars, earlier>>

\* what a step of one component leaves alone
notSeg == <<vadVars, mixVars, timVars, movVars, durVars, earlier>>
notVad == <<segVars, mixVars, timVars, movVars, durVars, earlier>>
notMix == <<segVars, vadVars, timVars, movVars, durVars, earlier>>
notTim == <<segVars, vadVars, mixVars, movVars, durVars, earlier>>
notMov == <<segVars, vadVars, mixVars, timVars, durVars, earlier>>
notDur == <<segVars, vadVars, mixVars, timVars, movVars, earlier>>

(***************************************************************************)
(* Pure helpers of segment_scenes.                                         *)
(***************************************************************************)
RECURSIVE InsertByStart(_, _)
\* place x behind every element whose key is not larger: a stable insert
InsertByStart(x, s) ==
    IF s = <<>> THEN <<x>>
    ELSE IF x.start < Head(s).start THEN <<x>> \o s
    ELSE <<Head(s)>> \o InsertByStart(x, Tail(s))

RECURSIVE SortedByStart(_)
\* sorted(segs, key=lambda x: x[0]): ascending by start, ties in input order
SortedByStart(s) ==
    IF s = <<>> THEN <<>>
    ELSE InsertByStart(Last(s), SortedByStart(SubSeq(s, 1, Len(s) - 1)))

\* the key comparison str < float raises TypeError; a list whose keys are all
\* of one type sorts
Sortable(s) == \A i, j \in DOMAIN s : s[i].numeric = s[j].numeric

\* a faulty variant of ShouldMerge: the 1 second limit of line 44 in place of the 2
ShouldMergeBelowSceneLimit(segment, current) ==
    segment.start - current.end < MIN_SCENE_DURATION

\* line 30: the gap to the running segment is below the 2 second threshold
\* a faulty variant of ShouldMerge: the gap is measured between the two ends
ShouldMergeByEnd(segment, current) ==
    segment.end - current.end < MERGE_THRESHOLD

ShouldMerge(segment, current) ==
    segment.start - current.end < MERGE_THRESHOLD

\* line 31: the running segment takes the end of the segment merged into it
MergeInto(current, segment) == [current EXCEPT !.end = segment.end]

\* a faulty variant of HasContent: the 2 second limit of line 30 in place of the 1
HasContentAboveMergeLimit(segment, le) ==
    segment.start - le > MERGE_THRESHOLD

\* line 44: room for a content scene before the non-language segment
HasContent(segment, le) == segment.start - le > MIN_SCENE_DURATION

RECURSIVE ContentTexts(_, _, _)
\* lines 46-49: texts of the transcript segments inside [lo, hi], in order
ContentTexts(segs, lo, hi) ==
    IF segs = <<>> THEN <<>>
    ELSE (IF Head(segs).start >= lo /\ Head(segs).end <= hi
          THEN <<Head(segs).text>> ELSE <<>>)
         \o ContentTexts(Tail(segs), lo, hi)

RECURSIVE FinalTexts(_, _)
\* lines 74-77: texts of the transcript segments starting at or after lo
FinalTexts(segs, lo) ==
    IF segs = <<>> THEN <<>>
    ELSE (IF Head(segs).start >= lo THEN <<Head(segs).text>> ELSE <<>>)
         \o FinalTexts(Tail(segs), lo)

RECURSIVE Join(_)
\* " ".join(texts)
Join(texts) ==
    IF texts = <<>> THEN ""
    ELSE IF Len(texts) = 1 THEN texts[1]
    ELSE texts[1] \o " " \o Join(Tail(texts))

\* lines 55 and 83: the joined texts, or the placeholder for an empty list
Describe(texts, placeholder) ==
    IF texts # <<>> THEN Join(texts) ELSE placeholder

\* a faulty variant of PassThrough: an empty list in place of the baseline scenes
PassThroughNothing(ar) == <<>>

\* line 23: the pass-through return value
PassThrough(ar) == ar.scenes

\* a faulty variant of ExceptClause: the handler lets the exception through as it is
ExceptClauseReraise(e) == e

\* lines 90-92: every Exception raised inside the try block leaves as
\* SceneSegmentationError
ExceptClause(e) == "SceneSegmentationError"

(***************************************************************************)
(* segment_scenes, scene_segmenter.py lines 6-92.                          *)
(***************************************************************************)
\* an exception raised inside the try block reaches the handler, which
\* raises in its turn; the frame and its locals are gone
SegRaise(e) ==
    /\ pc' = "done"
    /\ raised' = ExceptClause(e)
    /\ result' = None
    /\ UNCHANGED <<analysis_result, non_language_segments, merged_segments,
                   current_segment, idx, final_scenes, scene_id, last_end>>

SegReturn(value) ==
    /\ pc' = "done"
    /\ result' = Some(value)
    /\ raised' = ""

\* lines 12-27: the guards, the sort and the start of the merge
SegStart ==
    /\ pc = "start"
    /\ UNCHANGED notSeg
    /\ IF IsNone(analysis_result)
       THEN SegRaise("AttributeError")
       ELSE LET ar == Val(analysis_result) IN
            IF ar.scenes = <<>>
            THEN SegRaise("SceneSegmentationError")
            ELSE IF ~Sortable(ar.non_language_segments)
            THEN SegRaise("TypeError")
            ELSE LET srt == SortedByStart(ar.non_language_segments) IN
                 IF srt = <<>>
                 THEN /\ SegReturn(PassThrough(ar))
                      /\ UNCHANGED <<analysis_result, non_language_segments,
                                     merged_segments, current_segment, idx,
                                     final_scenes, scene_id, last_end>>
                 ELSE /\ non_language_segments' = srt
                      /\ merged_segments' = <<>>
                      /\ current_segment' = Some(srt[1])
                      /\ idx' = 2
                      /\ pc' = "merge"
                      /\ UNCHANGED <<analysis_result, final_scenes, scene_id,
                                     last_end, result, raised>>

\* lines 29-34: one iteration of the merge loop
SegMergeStep ==
    /\ pc = "merge"
    /\ UNCHANGED notSeg
    /\ idx <= Len(non_language_segments)
    /\ LET segment == non_language_segments[idx]
           current == Val(current_segment) IN
       IF ~segment.numeric \/ ~current.numeric
       THEN SegRaise("TypeError")
       ELSE /\ IF ShouldMerge(segment, current)
               THEN /\ current_segment' = Some(MergeInto(current, segment))
                    /\ UNCHANGED merged_segments
               ELSE /\ merged_segments' = Append(merged_segments, current)
                    /\ current_segment' = Some(segment)
            /\ idx' = idx + 1
            /\ UNCHANGED <<analysis_result, pc, non_language_segments,
                           final_scenes, scene_id, last_end, result, raised>>

\* lines 35-40: the merge loop is over, the walk starts
SegMergeEnd ==
    /\ pc = "merge"
    /\ UNCHANGED notSeg
    /\ idx > Len(non_language_segments)
    /\ merged_segments' = Append(merged_segments, Val(current_segment))
    /\ final_scenes' = <<>>
    /\ scene_id' = 0
    /\ last_end' = 0
    /\ idx' = 1
    /\ pc' = "walk"
    /\ UNCHANGED <<analysis_result, non_language_segments, current_segment,
                   result, raised>>

\* lines 42-70: one merged segment: a content scene when there is room for
\* one, then the non-language scene
SegWalkStep ==
    /\ pc = "walk"
    /\ UNCHANGED notSeg
    /\ idx <= Len(merged_segments)
    /\ LET segment == merged_segments[idx]
           ar == Val(analysis_result) IN
       IF ~segment.numeric
       THEN SegRaise("TypeError")
       ELSE IF HasContent(segment, last_end) /\ IsNone(ar.segments)
       THEN SegRaise("TypeError")
       ELSE LET content ==
                    IF HasContent(segment, last_end)
                    THEN <<Scene(scene_id, last_end, segment.start,
                                 Describe(ContentTexts(Val(ar.segments),
                                                       last_end, segment.start),
                                          SCENE_CONTENT))>>
                    ELSE <<>>
                nonlang == Scene(scene_id + Len(content), segment.start,
                                 segment.end, NON_LANGUAGE_DESCRIPTION)
            IN  /\ final_scenes' = final_scenes \o content \o <<nonlang>>
                /\ scene_id' = scene_id + Len(content) + 1
                /\ last_end' = segment.end
                /\ idx' = idx + 1
                /\ UNCHANGED <<analysis_result, pc, non_language_segments,
                               merged_segments, current_segment, result,
                               raised>>

\* lines 72-88: the final scene, and the return
SegFinal ==
    /\ pc = "walk"
    /\ UNCHANGED notSeg
    /\ idx > Len(merged_segments)
    /\ LET ar == Val(analysis_result)
           total == Last(ar.scenes).end_time IN
       IF last_end < total /\ IsNone(ar.segments)
       THEN SegRaise("TypeError")
       ELSE LET final ==
                    IF last_end < total
                    THEN <<Scene(scene_id, last_end, total,
                                 Describe(FinalTexts(Val(ar.segments), last_end),
                                          FINAL_SCENE))>>
                    ELSE <<>>
            IN  /\ final_scenes' = final_scenes \o final
                /\ SegReturn(final_scenes \o final)
                /\ UNCHANGED <<analysis_result, non_language_segments,
                               merged_segments, current_segment, idx, scene_id,
                               last_end>>

NextSeg == SegStart \/ SegMergeStep \/ SegMergeEnd \/ SegWalkStep \/ SegFinal

(***************************************************************************)
(* Inputs of segment_scenes.                                               *)
(***************************************************************************)
Times == 0 .. MaxTime

Tuples == {Tuple(s, e) : s \in Times, e \in Times} \cup {StrTuple}

WellFormed(t) == t.numeric /\ 0 <= t.start /\ t.start < t.end

TupleLists ==
    UNION {[1 .. n -> {t \in Tuples : ~t.numeric \/ WellFormed(t)}] :
           n \in 0 .. MaxIntervals}

\* the transcript of the segmenter's own test, on this timeline
SampleTranscript ==
    <<Seg(0, 1, "Hello"), Seg(1, 2, "World"), Seg(2, 4, "Test")>>

\* no transcript, an empty one, the sample, and the sample back to front
Transcripts ==
    {None, Some(<<>>), Some(SampleTranscript),
     Some(<<SampleTranscript[3], SampleTranscript[2], SampleTranscript[1]>>)}

\* the scenes an earlier stage left in the analysis result
Baselines ==
    {<<>>,
     <<Scene(0, 0, MaxTime, "Full duration")>>,
     <<Scene(0, 0, 1, "Opening"), Scene(1, 1, MaxTime - 1, "Rest")>>}

SegArguments ==
    {None} \cup
    {Some(AnalysisResult(sc, nls, sg)) :
        sc \in Baselines, nls \in TupleLists, sg \in Transcripts}

SegIdle ==
    /\ non_language_segments = <<>>
    /\ merged_segments = <<>>
    /\ current_segment = None
    /\ idx = 0
    /\ final_scenes = <<>>
    /\ scene_id = 0
    /\ last_end = 0
    /\ result = None
    /\ raised = ""

VadIdle ==
    /\ entry = ""
    /\ file_exists = FALSE
    /\ total_duration = 0
    /\ speech_segments = <<>>
    /\ vpc = "idle"
    /\ sorted_speech = <<>>
    /\ k = 0
    /\ current_time = 0
    /\ non_speech = <<>>
    /\ vad_result = None
    /\ vad_raised = ""

\* the calls of mix_audio, or the invocations of process_movie, that can be
\* in progress at the same time
Calls == {1, 2}

\* AudioMixer.__init__
NewMixer ==
    [export_format |-> "mp3",
     export_params |-> [bitrate |-> "192k", codec |-> "libmp3lame"]]

\* no call of mix_audio was made: only the mixer exists
MixLocalsIdle ==
    /\ clips = [c \in Calls |-> <<>>]
    /\ clips_to_close = [c \in Calls |-> <<>>]
    /\ final_composite_list = [c \in Calls |-> <<>>]
    /\ last_end_time = [c \in Calls |-> 0]
    /\ sorted_segments = [c \in Calls |-> None]
    /\ seg_index = [c \in Calls |-> 0]
    /\ final_audio = [c \in Calls |-> None]
    /\ mix_result = [c \in Calls |-> None]
    /\ mix_raised = [c \in Calls |-> ""]
    /\ env_fault = [c \in Calls |-> "none"]
    /\ made_dirs = {}

MixIdle ==
    /\ mixer = NewMixer
    /\ margs = [c \in Calls |-> None]
    /\ mpc = [c \in Calls |-> "idle"]
    /\ output_files = [c \in Calls |-> "absent"]
    /\ MixLocalsIdle

TimLocalsIdle ==
    /\ timing_sorted = <<>>
    /\ timing_index = 0
    /\ adjusted_segments = <<>>
    /\ timing_last_end = 0
    /\ timing_result = None

TimIdle ==
    /\ segments = <<>>
    /\ min_gap = 0
    /\ tpc = "idle"
    /\ TimLocalsIdle

MovIdle ==
    /\ movie_args = [p \in Calls |-> None]
    /\ movie_pc = [p \in Calls |-> "idle"]
    /\ movie_scenes = [p \in Calls |-> <<>>]
    /\ movie_index = [p \in Calls |-> 0]
    /\ movie_result = [p \in Calls |-> None]
    /\ mixer_call = [p \in Calls |-> None]
    /\ touched = {}

DurLocalsIdle ==
    /\ speed_factor = None
    /\ adjusted_duration = None
    /\ duration_result = ""
    /\ duration_raised = ""

DurIdle ==
    /\ audio_exists = FALSE
    /\ current_duration = 0
    /\ target_duration = 0
    /\ dpc = "idle"
    /\ DurLocalsIdle

\* no function is being applied to its own result
NoEarlier == earlier = <<>>

InitSeg ==
    /\ analysis_result \in SegArguments
    /\ pc = "start"
    /\ SegIdle
    /\ VadIdle
    /\ MixIdle
    /\ TimIdle
    /\ MovIdle
    /\ DurIdle
    /\ NoEarlier

SpecSeg == InitSeg /\ [][NextSeg]_vars

(***************************************************************************)
(* vad_analyzer.py                                                         *)
(***************************************************************************)
\* a speech interval (start, end) of line 112
Speech(s, e) == [start |-> s, end |-> e]

\* a faulty variant of GapBefore: speech that starts at the covered time
\* leaves a gap as well, an empty one
GapBeforeOrAt(start, ct) == start >= ct

\* line 55: speech starts after the covered time, so there is a gap
GapBefore(start, ct) == start > ct

\* line 57: the covered time never moves back
Covered(ct, end) == IF end > ct THEN end ELSE ct

\* line 60: there is time left after the last speech segment
GapAfter(ct, duration) == ct < duration

\* a faulty variant of KeepSegment: a segment of exactly 0.5 s is dropped as well
KeepSegmentStrict(seg) == seg.end - seg.start > MIN_SEGMENT_DURATION

\* line 126: the segment is long enough to keep
KeepSegment(seg) == seg.end - seg.start >= MIN_SEGMENT_DURATION

RECURSIVE FilterShort(_)
\* lines 124-127: the list comprehension
FilterShort(segs) ==
    IF segs = <<>> THEN <<>>
    ELSE (IF KeepSegment(Head(segs)) THEN <<Head(segs)>> ELSE <<>>)
         \o FilterShort(Tail(segs))

\* lines 132-134: every Exception raised inside the try block of
\* detect_non_dialogue_segments leaves as RuntimeError
VadExceptClause(e) == "RuntimeError"

VadRaise(e) ==
    /\ vpc' = "done"
    /\ vad_raised' = e
    /\ vad_result' = None
    /\ UNCHANGED <<entry, file_exists, total_duration, speech_segments,
                   sorted_speech, k, current_time, non_speech>>

\* lines 80-81: the file check, outside the try block
VadCheckFile ==
    /\ vpc = "start"
    /\ entry = "detect_non_dialogue_segments"
    /\ UNCHANGED notVad
    /\ IF ~file_exists
       THEN VadRaise("FileNotFoundError")
       ELSE /\ vpc' = "probe"
            /\ UNCHANGED <<entry, file_exists, total_duration, speech_segments,
                           sorted_speech, k, current_time, non_speech,
                           vad_result, vad_raised>>

\* lines 84-97: the model is loaded and the duration probed; either may
\* fail, and a duration of zero is refused
VadProbe ==
    /\ vpc = "probe"
    /\ UNCHANGED notVad
    /\ \E fails \in BOOLEAN :
          IF fails \/ total_duration = 0
          THEN VadRaise(VadExceptClause("RuntimeError"))
          ELSE /\ vpc' = "vad"
               /\ UNCHANGED <<entry, file_exists, total_duration,
                              speech_segments, sorted_speech, k, current_time,
                              non_speech, vad_result, vad_raised>>

\* lines 99-116: the audio is loaded and the VAD model run; either may fail
VadRun ==
    /\ vpc = "vad"
    /\ UNCHANGED notVad
    /\ \E fails \in BOOLEAN :
          IF fails
          THEN VadRaise(VadExceptClause("RuntimeError"))
          ELSE /\ vpc' = "inverse"
               /\ UNCHANGED <<entry, file_exists, total_duration,
                              speech_segments, sorted_speech, k, current_time,
                              non_speech, vad_result, vad_raised>>

\* lines 47-51 of calculate_inverse_segments
InverseStart ==
    /\ vpc = "inverse"
    /\ UNCHANGED notVad
    /\ non_speech' = <<>>
    /\ current_time' = 0
    /\ sorted_speech' = SortedByStart(speech_segments)
    /\ k' = 1
    /\ vpc' = "gaps"
    /\ UNCHANGED <<entry, file_exists, total_duration, speech_segments,
                   vad_result, vad_raised>>

\* lines 54-57: one speech segment
InverseStep ==
    /\ vpc = "gaps"
    /\ k <= Len(sorted_speech)
    /\ UNCHANGED notVad
    /\ LET seg == sorted_speech[k] IN
       /\ non_speech' = IF GapBefore(seg.start, current_time)
                        THEN Append(non_speech, Speech(current_time, seg.start))
                        ELSE non_speech
       /\ current_time' = Covered(current_time, seg.end)
    /\ k' = k + 1
    /\ UNCHANGED <<entry, file_exists, total_duration, speech_segments, vpc,
                   sorted_speech, vad_result, vad_raised>>

\* lines 59-63: the final gap and the return; the caller inside
\* detect_non_dialogue_segments goes on with the result (line 119)
InverseEnd ==
    /\ vpc = "gaps"
    /\ k > Len(sorted_speech)
    /\ UNCHANGED notVad
    /\ LET out == IF GapAfter(current_time, total_duration)
                  THEN Append(non_speech, Speech(current_time, total_duration))
                  ELSE non_speech IN
       /\ non_speech' = out
       /\ IF entry = "calculate_inverse_segments"
          THEN /\ vpc' = "done"
               /\ vad_result' = Some(out)
          ELSE /\ vpc' = "filter"
               /\ UNCHANGED vad_result
    /\ UNCHANGED <<entry, file_exists, total_duration, speech_segments,
                   sorted_speech, k, current_time, vad_raised>>

\* lines 122-130: the short segments are dropped, the rest returned
VadFilter ==
    /\ vpc = "filter"
    /\ UNCHANGED notVad
    /\ vad_result' = Some(FilterShort(non_speech))
    /\ vpc' = "done"
    /\ UNCHANGED <<entry, file_exists, total_duration, speech_segments,
                   sorted_speech, k, current_time, non_speech, vad_raised>>

NextVad ==
    \/ VadCheckFile \/ VadProbe \/ VadRun
    \/ InverseStart \/ InverseStep \/ InverseEnd
    \/ VadFilter

(***************************************************************************)
(* Inputs of vad_analyzer.py.                                              *)
(***************************************************************************)
Ticks == 0 .. MaxDuration

SpeechIntervals == {Speech(s, e) : s \in Ticks, e \in Ticks}

SpeechLists ==
    UNION {[1 .. n -> {sp \in SpeechIntervals : sp.start < sp.end}] :
           n \in 0 .. MaxSpeech}

Within(segs, duration) == \A i \in DOMAIN segs : segs[i].end <= duration

VadLocalsIdle ==
    /\ sorted_speech = <<>>
    /\ k = 0
    /\ current_time = 0
    /\ non_speech = <<>>
    /\ vad_result = None
    /\ vad_raised = ""

\* calculate_inverse_segments called on its own takes whatever its caller
\* passes: any duration, speech in any order and anywhere
InitInverse ==
    /\ entry = "calculate_inverse_segments"
    /\ file_exists = TRUE
    /\ total_duration \in -1 .. MaxDuration
    /\ speech_segments \in SpeechLists
    /\ vpc = "inverse"
    /\ VadLocalsIdle
    /\ analysis_result = None
    /\ pc = "idle"
    /\ SegIdle
    /\ MixIdle
    /\ TimIdle
    /\ MovIdle
    /\ DurIdle
    /\ NoEarlier

NextInverse == InverseStart \/ InverseStep \/ InverseEnd

SpecInverse == InitInverse /\ [][NextInverse]_vars

\* detect_non_dialogue_segments gets the duration from the probe, which
\* counts frames, and the speech the VAD model found in the frames of that
\* file; a file that does not exist has neither
InitVad ==
    /\ entry = "detect_non_dialogue_segments"
    /\ file_exists \in BOOLEAN
    /\ total_duration \in 0 .. MaxDuration
    /\ speech_segments \in SpeechLists
    /\ Within(speech_segments, total_duration)
    /\ ~file_exists => total_duration = 0
    /\ vpc = "start"
    /\ VadLocalsIdle
    /\ analysis_result = None
    /\ pc = "idle"
    /\ SegIdle
    /\ MixIdle
    /\ TimIdle
    /\ MovIdle
    /\ DurIdle
    /\ NoEarlier

SpecVad == InitVad /\ [][NextVad]_vars

(***************************************************************************)
(* Properties of segment_scenes, checked under SpecSeg.                    *)
(***************************************************************************)
SegArg == Val(analysis_result)

\* the call returned a list
SegReturned == pc = "done" /\ raised = "" /\ ~IsNone(result)

\* the call returned a list it built itself, from a non-empty interval list
SegBuilt == SegReturned /\ SegArg.non_language_segments # <<>>

IsNonLanguage(scene) == scene.description = NON_LANGUAGE_DESCRIPTION

Contiguous(scenes) ==
    \A i \in 1 .. Len(scenes) - 1 :
        scenes[i].end_time = scenes[i + 1].start_time

\* C1: every scene list the segmenter builds from a non-empty interval list
\* is contiguous: each scene ends where the next one starts.  The list is
\* contiguous while it grows and when it is returned.
C1_Contiguity ==
    /\ Contiguous(final_scenes)
    /\ SegBuilt => Contiguous(Val(result))

\* C1 witness: a returned list of four scenes, with content scenes between
\* and after non-language scenes
C1_Witness ==
    /\ SegBuilt
    /\ Len(Val(result)) >= 4
    /\ \E i \in DOMAIN Val(result) : ~IsNonLanguage(Val(result)[i])

\* every interval lies inside the timeline [0, T] of the baseline scenes
InsideTimeline(nls, total) ==
    \A i \in DOMAIN nls :
        /\ nls[i].numeric
        /\ 0 <= nls[i].start
        /\ nls[i].start < nls[i].end
        /\ nls[i].end <= total

\* the second [c, c + 1] lies inside one of the scenes
CellInScene(c, scenes) ==
    \E i \in DOMAIN scenes :
        scenes[i].start_time <= c /\ c + 1 <= scenes[i].end_time

\* C2: on the segmentation path, with every interval inside [0, T], the
\* returned scenes cover the timeline: the first starts at 0, the last ends
\* at T and every instant of [0, T] is inside a scene.
C2_TimelineCovered ==
    (SegBuilt /\ InsideTimeline(SegArg.non_language_segments,
                                Last(SegArg.scenes).end_time))
    => LET scenes == Val(result)
           total == Last(SegArg.scenes).end_time IN
       /\ scenes[1].start_time = 0
       /\ Last(scenes).end_time = total
       /\ \A c \in 0 .. total - 1 : CellInScene(c, scenes)

\* two intervals overlap, touch, or are less than the threshold apart
Linked(a, b) ==
    /\ b.start - a.end < MERGE_THRESHOLD
    /\ a.start - b.end < MERGE_THRESHOLD

RECURSIVE Group(_, _)
\* the indices chained to those of S by Linked
Group(S, nls) ==
    LET T == S \cup {j \in DOMAIN nls : \E i \in S : Linked(nls[i], nls[j])}
    IN  IF T = S THEN S ELSE Group(T, nls)

SetMin(S) == CHOOSE x \in S : \A y \in S : x <= y
SetMax(S) == CHOOSE x \in S : \A y \in S : x >= y

\* earliest start and latest end of every maximal group
GroupSpans(nls) ==
    {[start |-> SetMin({nls[j].start : j \in Group({i}, nls)}),
      end   |-> SetMax({nls[j].end : j \in Group({i}, nls)})] :
        i \in DOMAIN nls}

NonLanguageIndices(scenes) ==
    {i \in DOMAIN scenes : IsNonLanguage(scenes[i])}

\* C3: every maximal group of intervals that overlap or are chained by gaps
\* below 2 s yields exactly one non-language scene, from the earliest start
\* to the latest end of the group.
C3_GroupsBecomeScenes ==
    (SegBuilt /\ \A i \in DOMAIN SegArg.non_language_segments :
                     SegArg.non_language_segments[i].numeric)
    => LET scenes == Val(result)
           spans == GroupSpans(SegArg.non_language_segments) IN
       /\ Cardinality(NonLanguageIndices(scenes)) = Cardinality(spans)
       /\ {[start |-> scenes[i].start_time, end |-> scenes[i].end_time] :
              i \in NonLanguageIndices(scenes)} = spans

\* the transcript of the analysis result; no transcript has no segments
TranscriptOf(ar) == IF IsNone(ar.segments) THEN <<>> ELSE Val(ar.segments)

\* the indices of the transcript segments inside [lo, hi], in ascending order
InRange(transcript, lo, hi) ==
    {i \in DOMAIN transcript :
        transcript[i].start >= lo /\ transcript[i].end <= hi}

RECURSIVE JoinIndices(_, _)
\* the texts at the indices of S, joined by one space in index order
JoinIndices(transcript, S) ==
    IF S = {} THEN ""
    ELSE LET i == SetMin(S) IN
         IF S = {i} THEN transcript[i].text
         ELSE transcript[i].text \o " " \o JoinIndices(transcript, S \ {i})

ExpectedContent(transcript, lo, hi) ==
    IF InRange(transcript, lo, hi) = {} THEN SCENE_CONTENT
    ELSE JoinIndices(transcript, InRange(transcript, lo, hi))

\* where the walk stands before merged segment j: the end of the one before
EndBefore(j) == IF j = 1 THEN 0 ELSE merged_segments[j - 1].end

\* C4: a content scene before a non-language scene is described by the
\* space-joined texts of the transcript segments inside it, in transcript
\* order, and by "Scene content" when there are none, also when the analysis
\* result has no transcript at all.  Every merged segment with more than a
\* second of room before it gets that content scene.
C4_ContentDescription ==
    (/\ pc = "done"
     /\ ~IsNone(analysis_result)
     /\ SegArg.scenes # <<>>
     /\ SegArg.non_language_segments # <<>>
     /\ InsideTimeline(SegArg.non_language_segments,
                       Last(SegArg.scenes).end_time))
    => /\ SegReturned
       /\ \A j \in DOMAIN merged_segments :
             merged_segments[j].start - EndBefore(j) > MIN_SCENE_DURATION
             => \E i \in DOMAIN Val(result) :
                   /\ Val(result)[i].start_time = EndBefore(j)
                   /\ Val(result)[i].end_time = merged_segments[j].start
                   /\ Val(result)[i].description =
                         ExpectedContent(TranscriptOf(SegArg), EndBefore(j),
                                         merged_segments[j].start)

Alternating(scenes) ==
    \A i \in 1 .. Len(scenes) - 1 :
        IsNonLanguage(scenes[i]) # IsNonLanguage(scenes[i + 1])

\* C5: in every scene list the segmenter builds, content scenes and
\* non-language scenes alternate: no two neighbours are of the same kind.
C5_Alternation ==
    /\ Alternating(final_scenes)
    /\ SegBuilt => Alternating(Val(result))

\* C5 witness: content, non-language, content
C5_Witness ==
    /\ SegBuilt
    /\ Len(Val(result)) = 3
    /\ ~IsNonLanguage(Val(result)[1])
    /\ IsNonLanguage(Val(result)[2])
    /\ ~IsNonLanguage(Val(result)[3])

\* C6: with no non-dialogue interval and at least one baseline scene the
\* call raises nothing and returns the baseline scenes as they are.
C6_PassThrough ==
    (/\ pc = "done"
     /\ ~IsNone(analysis_result)
     /\ SegArg.non_language_segments = <<>>
     /\ SegArg.scenes # <<>>)
    => /\ raised = ""
       /\ result = Some(SegArg.scenes)

\* C6 witness: a baseline of two scenes was passed through
C6_Witness ==
    /\ SegReturned
    /\ SegArg.non_language_segments = <<>>
    /\ Len(Val(result)) = 2

\* an input segment_scenes cannot work with
SegBadInput ==
    \/ IsNone(analysis_result)
    \/ SegArg.scenes = <<>>
    \/ \E i \in DOMAIN SegArg.non_language_segments :
          ~SegArg.non_language_segments[i].numeric

\* C7: every failure leaves as SceneSegmentationError and no other class;
\* a bad input always fails; the caller sees nothing before the call ends,
\* and then either a complete list (the baseline, or the list built after
\* the whole walk and the final scene) or the error and no list.
C7_SingleErrorKind ==
    /\ raised \in {"", "SceneSegmentationError"}
    /\ pc # "done" => raised = "" /\ IsNone(result)
    /\ pc = "done" =>
          \/ raised = "SceneSegmentationError" /\ IsNone(result)
          \/ /\ raised = ""
             /\ ~SegBadInput
             /\ \/ /\ SegArg.non_language_segments = <<>>
                   /\ result = Some(SegArg.scenes)
                \/ /\ SegArg.non_language_segments # <<>>
                   /\ idx = Len(merged_segments) + 1
                   /\ result = Some(final_scenes)
                   /\ Last(final_scenes).end_time >= Last(SegArg.scenes).end_time
    /\ (pc = "done" /\ SegBadInput) => raised = "SceneSegmentationError"

\* C7 witness: the call failed after it had built part of a list
C7_Witness ==
    /\ pc = "done"
    /\ raised = "SceneSegmentationError"
    /\ final_scenes # <<>>
    /\ IsNone(result)

(***************************************************************************)
(* Properties of vad_analyzer.py: calculate_inverse_segments under         *)
(* SpecInverse, detect_non_dialogue_segments under SpecVad.                *)
(***************************************************************************)
InverseReturned ==
    vpc = "done" /\ entry = "calculate_inverse_segments" /\ ~IsNone(vad_result)

\* the quarter second [c, c + 1] lies inside one of the intervals
CellIn(c, segs) ==
    \E i \in DOMAIN segs : segs[i].start <= c /\ c + 1 <= segs[i].end

\* C8: for speech intervals in any order, overlapping or not, each with
\* 0 <= start < end, and a duration D > 0, calculate_inverse_segments returns
\* the complement of the speech within [0, D]: sorted, pairwise disjoint,
\* inside [0, D], clear of every speech interval, and covering with the
\* speech all of [0, D].
C8_InverseIsComplement ==
    (InverseReturned /\ total_duration > 0)
    => LET out == Val(vad_result) IN
       /\ \A i \in 1 .. Len(out) - 1 : out[i].end <= out[i + 1].start
       /\ \A i \in DOMAIN out :
             /\ 0 <= out[i].start
             /\ out[i].start < out[i].end
             /\ out[i].end <= total_duration
       /\ \A i \in DOMAIN out : \A j \in DOMAIN speech_segments :
             \/ out[i].end <= speech_segments[j].start
             \/ speech_segments[j].end <= out[i].start
       /\ \A c \in 0 .. total_duration - 1 :
             CellIn(c, out) \/ CellIn(c, speech_segments)

DetectReturned ==
    vpc = "done" /\ entry = "detect_non_dialogue_segments" /\ ~IsNone(vad_result)

\* the indices of the complement that are at least 0.5 s long
LongEnough(segs) ==
    {i \in DOMAIN segs : segs[i].end - segs[i].start >= MIN_SEGMENT_DURATION}

\* the n-th smallest member of a set of indices
Nth(S, n) == CHOOSE i \in S : Cardinality({j \in S : j <= i}) = n

\* C9: every interval detect_non_dialogue_segments returns lasts at least
\* 0.5 s; an interval of the complement is dropped exactly when it is
\* shorter, and those kept stay in the order of the complement.
C9_MinDuration ==
    DetectReturned
    => LET out == Val(vad_result) IN
       /\ \A i \in DOMAIN out :
             out[i].end - out[i].start >= MIN_SEGMENT_DURATION
       /\ Len(out) = Cardinality(LongEnough(non_speech))
       /\ \A n \in DOMAIN out : out[n] = non_speech[Nth(LongEnough(non_speech), n)]

\* C9 witness: a short interval was dropped from between two that stayed,
\* one of them exactly 0.5 s long
C9_Witness ==
    /\ DetectReturned
    /\ Len(non_speech) = 3
    /\ Len(Val(vad_result)) = 2
    /\ Val(vad_result)[2] = non_speech[3]
    /\ \E i \in DOMAIN Val(vad_result) :
          Val(vad_result)[i].end - Val(vad_result)[i].start
             = MIN_SEGMENT_DURATION

\* C10: with a total duration of zero or less the non-dialogue computation
\* fails with an error and returns no list of intervals.
C10_InvalidDurationFails ==
    (vpc = "done" /\ total_duration <= 0)
    => vad_raised # "" /\ IsNone(vad_result)

(***************************************************************************)
(* audio_mixer.py: AudioMixer.mix_audio.                                   *)
(*                                                                         *)
(* Times are half seconds.  The files the mixer can be pointed at are      *)
(* fixed: one original track, two narration files, and names that no file  *)
(* has.  An output path is a record of its directory part and its file     *)
(* part, because os.path.dirname takes it apart.                           *)
(***************************************************************************)
ORIGINAL == "original.wav"
NO_ORIGINAL == "nonexistent.wav"
NARRATION_SHORT == "narration_short.wav"
NARRATION_LONG == "narration_long.wav"
NO_NARRATION == "missing_narration.wav"

\* os.path.exists
Exists(path) == path \in {ORIGINAL, NARRATION_SHORT, NARRATION_LONG}

\* the duration a loaded file reports
DurationOf(path) ==
    IF path = ORIGINAL THEN MaxMixTime
    ELSE IF path = NARRATION_SHORT THEN 1
    ELSE 2

\* os.path.dirname(output_path)
Dirname(output_path) == output_path.dir

\* one dict of narrated_segments; narration_path is None when the key is
\* absent or holds None
NarratedSegment(s, e, p) ==
    [start_time |-> s, end_time |-> e, narration_path |-> p]

RECURSIVE Pow10(_)
Pow10(n) == IF n <= 0 THEN 1 ELSE 10 * Pow10(n - 1)

\* adjust_volume, line 39: 10 ** (volume_db / 20.0), in tenths, for the
\* multiples of 20 dB from -20 dB up
VolumeFactor(volume_db) == Pow10(volume_db \div 20 + 1)

\* AudioFileClip(path): the whole file, not positioned, at unit gain
AudioFileClip(path) ==
    [source |-> path, from |-> 0, to |-> DurationOf(path), start |-> 0,
     gain |-> VolumeFactor(0), closes |-> 0]

ClipDuration(clip) == clip.to - clip.from
ClipEnd(clip) == clip.start + ClipDuration(clip)

\* clip.subclip(t_start, t_end) raises ValueError when t_start lies beyond
\* the clip's end; t_end may lie beyond it
CanSubclip(clip, t_start) == t_start <= ClipDuration(clip)

Subclip(clip, t_start, t_end) ==
    [clip EXCEPT !.from = clip.from + t_start, !.to = clip.from + t_end,
                 !.closes = 0]

\* clip.set_start(t), which lines 181, 202, 203 and 214 call for its effect
\* on the clip itself ("Position in place")
SetStart(clip, t) == [clip EXCEPT !.start = t]

\* clip.volumex(factor): a new clip
Volumex(clip, factor) ==
    [clip EXCEPT !.gain = (clip.gain * factor) \div VolumeFactor(0),
                 !.closes = 0]

\* lines 168-169: the filter of the list comprehension
\* a faulty variant of Usable: the file is not looked for
UsableUnchecked(s) ==
    ~IsNone(s.narration_path) /\ Val(s.narration_path) # ""
Usable(s) ==
    /\ ~IsNone(s.narration_path)
    /\ Val(s.narration_path) # ""
    /\ Exists(Val(s.narration_path))

\* sorted(..., key=lambda x: x['start_time']): stable
RECURSIVE InsertByStartTime(_, _)
InsertByStartTime(x, s) ==
    IF s = <<>> THEN <<x>>
    ELSE IF x.start_time < s[1].start_time THEN <<x>> \o s
    ELSE <<s[1]>> \o InsertByStartTime(x, Tail(s))

RECURSIVE SortedByStartTime(_)
SortedByStartTime(s) ==
    IF s = <<>> THEN <<>>
    ELSE InsertByStartTime(s[Len(s)], SortedByStartTime(SubSeq(s, 1, Len(s) - 1)))

\* line 189: the slice of background under the narration ends where the
\* loaded narration ends
\* a faulty variant of BackgroundEnd: the segment's own end_time
BackgroundEndOfSegment(segment, narration_duration) == segment.end_time
BackgroundEnd(segment, narration_duration) ==
    segment.start_time + narration_duration

\* line 219: the composite takes the original's duration, whatever the
\* last slice's end is
\* a faulty variant of CompositeDuration: the duration the composite
\* computes from its slices
CompositeDurationOfSlices(latest_end, original_duration) == latest_end
CompositeDuration(latest_end, original_duration) == original_duration

\* line 150: the test the call starts with
\* a faulty variant of PreconditionHolds: no test
PreconditionSkipped(path) == TRUE
PreconditionHolds(path) == Exists(path)

\* line 164: last_end_time is a local of the call
\* a faulty variant of CursorOf: the cursor is kept on the mixer
CursorOnMixer(c) == 1
CursorOf(c) == c

Upd(f, c, v) == [f EXCEPT ![c] = v]

RECURSIVE MaxEnd(_, _)
\* max(c.end for c in clips) of the composite's constructor
MaxEnd(cl, ids) ==
    IF ids = <<>> THEN 0
    ELSE LET rest == MaxEnd(cl, Tail(ids))
             e == ClipEnd(cl[ids[1]])
         IN IF e > rest THEN e ELSE rest


(***************************************************************************)
(* mix_audio, one action per step of call c.                               *)
(*                                                                         *)
(* The environment can make an operation on a file fail: loading a clip,   *)
(* creating the directory, exporting, closing.  env_fault names the        *)
(* operation; a call suffers at most one such failure.                     *)
(***************************************************************************)
mixFrame == <<clips, clips_to_close, final_composite_list, last_end_time,
              sorted_segments, seg_index, final_audio>>
mixWorld == <<made_dirs, output_files>>

MixArg(c) == Val(margs[c])
OriginalClip(c) == clips[c][1]

MixReturn(c, value) ==
    /\ mix_result' = Upd(mix_result, c, Some(value))
    /\ mpc' = Upd(mpc, c, "done")
    /\ UNCHANGED mix_raised

MixRaise(c, e) ==
    /\ mix_raised' = Upd(mix_raised, c, e)
    /\ mpc' = Upd(mpc, c, "done")
    /\ UNCHANGED mix_result

\* lines 244-248: the two except clauses of the try block
MixExcept(c, e) ==
    IF e = "FileNotFoundError" THEN MixRaise(c, e) ELSE MixReturn(c, FALSE)

MixGoto(c, label) ==
    /\ mpc' = Upd(mpc, c, label)
    /\ UNCHANGED <<mix_result, mix_raised>>

\* lines 150-152
MixCheck(c) ==
    /\ mpc[c] = "call"
    /\ UNCHANGED notMix
    /\ UNCHANGED <<mixer, margs, mixFrame, mixWorld, env_fault>>
    /\ IF ~PreconditionHolds(MixArg(c).original_audio_path)
       THEN MixRaise(c, "FileNotFoundError")
       ELSE MixGoto(c, "open")

\* lines 156-157
MixOpen(c) ==
    /\ mpc[c] = "open"
    /\ UNCHANGED notMix
    /\ UNCHANGED <<mixer, margs, mixWorld, final_composite_list,
                   last_end_time, sorted_segments, seg_index, final_audio>>
    /\ \E fails \in BOOLEAN :
          IF ~Exists(MixArg(c).original_audio_path)
          THEN /\ MixExcept(c, "OSError")
               /\ UNCHANGED <<clips, clips_to_close, env_fault>>
          ELSE IF fails
          THEN /\ env_fault' = Upd(env_fault, c, "load_original")
               /\ MixExcept(c, "OSError")
               /\ UNCHANGED <<clips, clips_to_close>>
          ELSE /\ clips' =
                    Upd(clips, c,
                        <<AudioFileClip(MixArg(c).original_audio_path)>>)
               /\ clips_to_close' = Upd(clips_to_close, c, <<1>>)
               /\ MixGoto(c, "makedirs")
               /\ UNCHANGED env_fault

\* line 160; os.makedirs('') raises FileNotFoundError
MixMakeDirs(c) ==
    /\ mpc[c] = "makedirs"
    /\ UNCHANGED notMix
    /\ UNCHANGED <<mixer, margs, mixFrame, output_files>>
    /\ \E fails \in BOOLEAN :
          LET dir == Dirname(MixArg(c).output_path)
          IN IF dir = ""
             THEN /\ MixExcept(c, "FileNotFoundError")
                  /\ UNCHANGED <<made_dirs, env_fault>>
             ELSE IF fails
             THEN /\ env_fault' = Upd(env_fault, c, "makedirs")
                  /\ MixExcept(c, "PermissionError")
                  /\ UNCHANGED made_dirs
             ELSE /\ made_dirs' = made_dirs \cup {dir}
                  /\ MixGoto(c, "sort")
                  /\ UNCHANGED env_fault

\* lines 163-170
MixSort(c) ==
    /\ mpc[c] = "sort"
    /\ UNCHANGED notMix
    /\ UNCHANGED <<mixer, margs, mixWorld, env_fault, clips, clips_to_close,
                   final_audio>>
    /\ final_composite_list' = Upd(final_composite_list, c, <<>>)
    /\ last_end_time' = Upd(last_end_time, CursorOf(c), 0)
    /\ sorted_segments' =
          Upd(sorted_segments, c,
              Some(SortedByStartTime(
                       SelectSeq(MixArg(c).narrated_segments, Usable))))
    /\ seg_index' = Upd(seg_index, c, 1)
    /\ MixGoto(c, "walk")


\* lines 173-208: one iteration of the for loop
MixSegment(c) ==
    /\ mpc[c] = "walk"
    /\ seg_index[c] <= Len(Val(sorted_segments[c]))
    /\ UNCHANGED notMix
    /\ UNCHANGED <<mixer, margs, mixWorld, sorted_segments, final_audio>>
    /\ \E fails \in BOOLEAN :
        LET segment == Val(sorted_segments[c])[seg_index[c]]
            start_time == segment.start_time
            narration_path == Val(segment.narration_path)
            original_audio == OriginalClip(c)
            cursor == last_end_time[CursorOf(c)]
            volume_db == MixArg(c).background_volume_reduction_db
            \* lines 177-183: the original between the cursor and the segment
            gap == start_time > cursor
            n0 == Len(clips[c])
            original_part ==
                SetStart(Subclip(original_audio, cursor, start_time), cursor)
            clips1 == IF gap THEN Append(clips[c], original_part)
                      ELSE clips[c]
            close1 == IF gap THEN Append(clips_to_close[c], n0 + 1)
                      ELSE clips_to_close[c]
            list1 == IF gap THEN Append(final_composite_list[c], n0 + 1)
                     ELSE final_composite_list[c]
            n1 == Len(clips1)
            \* lines 187-189
            narration_clip == AudioFileClip(narration_path)
            end_time == BackgroundEnd(segment, ClipDuration(narration_clip))
            \* lines 192-194; adjust_volume returns its argument at 0 dB
            background_segment == Subclip(original_audio, start_time, end_time)
            same == volume_db = 0
            adjusted_background ==
                Volumex(background_segment, VolumeFactor(volume_db))
            id_narration == n1 + 1
            id_background == n1 + 2
            id_adjusted == IF same THEN n1 + 2 ELSE n1 + 3
            \* lines 202-203: both are positioned at start_time
            clips3 ==
                IF same
                THEN clips1 \o <<SetStart(narration_clip, start_time),
                                 SetStart(background_segment, start_time)>>
                ELSE clips1 \o <<SetStart(narration_clip, start_time),
                                 background_segment,
                                 SetStart(adjusted_background, start_time)>>
        IN IF gap /\ ~CanSubclip(original_audio, cursor)
           THEN \* line 179 raises
                /\ MixExcept(c, "ValueError")
                /\ UNCHANGED <<clips, clips_to_close, final_composite_list,
                               last_end_time, seg_index, env_fault>>
           ELSE IF ~Exists(narration_path) \/ fails
           THEN \* line 187 raises
                /\ env_fault' =
                      IF Exists(narration_path)
                      THEN Upd(env_fault, c, "load_narration")
                      ELSE env_fault
                /\ clips' = Upd(clips, c, clips1)
                /\ clips_to_close' = Upd(clips_to_close, c, close1)
                /\ final_composite_list' = Upd(final_composite_list, c, list1)
                /\ MixExcept(c, "OSError")
                /\ UNCHANGED <<last_end_time, seg_index>>
           ELSE IF ~CanSubclip(original_audio, start_time)
           THEN \* line 192 raises
                /\ clips' = Upd(clips, c, Append(clips1, narration_clip))
                /\ clips_to_close' = Upd(clips_to_close, c, close1)
                /\ final_composite_list' = Upd(final_composite_list, c, list1)
                /\ MixExcept(c, "ValueError")
                /\ UNCHANGED <<last_end_time, seg_index, env_fault>>
           ELSE /\ clips' = Upd(clips, c, clips3)
                /\ clips_to_close' =
                      Upd(clips_to_close, c,
                          close1 \o <<id_narration, id_background,
                                      id_adjusted>>)
                /\ final_composite_list' =
                      Upd(final_composite_list, c,
                          list1 \o <<id_adjusted, id_narration>>)
                /\ last_end_time' = Upd(last_end_time, CursorOf(c), end_time)
                /\ seg_index' = Upd(seg_index, c, seg_index[c] + 1)
                /\ UNCHANGED <<mpc, mix_result, mix_raised, env_fault>>

\* lines 211-215, after the last iteration
MixTail(c) ==
    /\ mpc[c] = "walk"
    /\ seg_index[c] > Len(Val(sorted_segments[c]))
    /\ UNCHANGED notMix
    /\ UNCHANGED <<mixer, margs, mixWorld, env_fault, last_end_time,
                   sorted_segments, seg_index, final_audio>>
    /\ LET original_audio == OriginalClip(c)
           cursor == last_end_time[CursorOf(c)]
           n0 == Len(clips[c])
           final_part ==
               SetStart(Subclip(original_audio, cursor,
                                ClipDuration(original_audio)), cursor)
       IN IF cursor < ClipDuration(original_audio)
          THEN /\ clips' = Upd(clips, c, Append(clips[c], final_part))
               /\ clips_to_close' =
                     Upd(clips_to_close, c, Append(clips_to_close[c], n0 + 1))
               /\ final_composite_list' =
                     Upd(final_composite_list, c,
                         Append(final_composite_list[c], n0 + 1))
          ELSE UNCHANGED <<clips, clips_to_close, final_composite_list>>
    /\ MixGoto(c, "compose")

\* lines 218-219; the composite of no clip at all cannot be built
MixCompose(c) ==
    /\ mpc[c] = "compose"
    /\ UNCHANGED notMix
    /\ UNCHANGED <<mixer, margs, mixWorld, env_fault, clips, clips_to_close,
                   final_composite_list, last_end_time, sorted_segments,
                   seg_index>>
    /\ IF final_composite_list[c] = <<>>
       THEN /\ MixExcept(c, "ValueError")
            /\ UNCHANGED final_audio
       ELSE /\ final_audio' =
                  Upd(final_audio, c,
                      Some([clips |-> final_composite_list[c],
                            duration |->
                                CompositeDuration(
                                    MaxEnd(clips[c], final_composite_list[c]),
                                    ClipDuration(OriginalClip(c))),
                            closes |-> 0]))
            /\ MixGoto(c, "export")

\* lines 225-230: write_audiofile writes straight to output_path
MixExport(c) ==
    /\ mpc[c] = "export"
    /\ UNCHANGED notMix
    /\ UNCHANGED <<mixer, margs, mixFrame, made_dirs>>
    /\ \E fails \in BOOLEAN :
          LET file == MixArg(c).output_path.file
          IN IF fails
             THEN /\ env_fault' = Upd(env_fault, c, "export")
                  /\ output_files' = Upd(output_files, file, "partial")
                  /\ MixExcept(c, "OSError")
             ELSE /\ output_files' = Upd(output_files, file, "complete")
                  /\ MixGoto(c, "close")
                  /\ UNCHANGED env_fault

\* the number of close() calls of lines 236-240 that reach clip id and
\* do not raise; the call at position bad of the reversed walk raises
ClosesOf(to_close, id, bad) ==
    Cardinality({p \in DOMAIN to_close : to_close[p] = id /\ p # bad})

\* lines 235-242: final_audio.close() stands outside the inner try
MixClose(c) ==
    /\ mpc[c] = "close"
    /\ UNCHANGED notMix
    /\ UNCHANGED <<mixer, margs, mixWorld, clips_to_close,
                   final_composite_list, last_end_time, sorted_segments,
                   seg_index>>
    /\ \E bad \in -1 .. Len(clips_to_close[c]) :
          IF bad = -1
          THEN /\ env_fault' = Upd(env_fault, c, "close_composite")
               /\ MixExcept(c, "OSError")
               /\ UNCHANGED <<clips, final_audio>>
          ELSE /\ env_fault' =
                     IF bad = 0 THEN env_fault
                     ELSE Upd(env_fault, c, "close_clip")
               /\ final_audio' =
                     Upd(final_audio, c,
                         Some([Val(final_audio[c]) EXCEPT !.closes = 1]))
               /\ clips' =
                     Upd(clips, c,
                         [id \in DOMAIN clips[c] |->
                             [clips[c][id] EXCEPT
                                 !.closes =
                                     ClosesOf(clips_to_close[c], id, bad)]])
               /\ MixReturn(c, TRUE)

MixStep(c) ==
    \/ MixCheck(c)
    \/ MixOpen(c)
    \/ MixMakeDirs(c)
    \/ MixSort(c)
    \/ MixSegment(c)
    \/ MixTail(c)
    \/ MixCompose(c)
    \/ MixExport(c)
    \/ MixClose(c)

NextMix == \E c \in Calls : MixStep(c)


(***************************************************************************)
(* The calls explored.                                                     *)
(***************************************************************************)
\* a segment the filter drops is never read beyond its narration_path; a
\* segment it keeps is nominally one half second long and starts anywhere
\* up to one half second after the original's end
NarratedSegments ==
    {NarratedSegment(0, 1, p) : p \in {None, Some(""), Some(NO_NARRATION)}}
    \cup {NarratedSegment(s, s + 1, Some(p)) :
              s \in 0 .. MaxMixTime + 1,
              p \in {NARRATION_SHORT, NARRATION_LONG}}

NarrationLists ==
    UNION {[1 .. n -> NarratedSegments] : n \in 0 .. MaxNarrations}

\* the original, the directory part of the output path and the two volume
\* arguments; -20 dB is the factor 0.1, +20 dB the factor 10
MixSetting(o, d, bg, na) == [original |-> o, dir |-> d, bg |-> bg, na |-> na]

MixSettings ==
    {MixSetting(ORIGINAL, "out", -20, 0),
     MixSetting(ORIGINAL, "out", 0, 0),
     MixSetting(ORIGINAL, "out", -20, 20),
     MixSetting(ORIGINAL, "", -20, 0),
     MixSetting(NO_ORIGINAL, "out", -20, 0)}

\* the arguments of mix_audio; every call has an output file of its own
MixCall(file, setting, list) ==
    [original_audio_path |-> setting.original,
     narrated_segments |-> list,
     output_path |-> [dir |-> setting.dir, file |-> file],
     background_volume_reduction_db |-> setting.bg,
     narration_volume_adjust_db |-> setting.na]

MixArguments(file) ==
    {MixCall(file, setting, list) :
        setting \in MixSettings, list \in NarrationLists}

OthersIdleForMix ==
    /\ analysis_result = None
    /\ pc = "idle"
    /\ SegIdle
    /\ VadIdle
    /\ TimIdle
    /\ MovIdle
    /\ DurIdle
    /\ NoEarlier

\* one call of mix_audio
InitMix ==
    /\ mixer = NewMixer
    /\ \E a \in MixArguments(1) :
          margs = [c \in Calls |-> IF c = 1 THEN Some(a) ELSE None]
    /\ mpc = [c \in Calls |-> IF c = 1 THEN "call" ELSE "idle"]
    /\ output_files = [c \in Calls |-> "absent"]
    /\ MixLocalsIdle
    /\ OthersIdleForMix

SpecMix == InitMix /\ [][NextMix]_vars

\* the lists of test_mix_audio's shape: every segment has a narration, no
\* two start together
RECURSIVE Ascending(_)
Ascending(list) ==
    \/ Len(list) <= 1
    \/ /\ list[1].start_time < list[2].start_time
       /\ Ascending(Tail(list))

PairLists ==
    {list \in UNION {[1 .. n ->
                        {NarratedSegment(s, s + 1, Some(NARRATION_SHORT)) :
                            s \in 0 .. MaxMixTime}] :
                     n \in 0 .. MaxNarrations} :
        Ascending(list)}

\* test_concurrent_mixing: two calls on the one mixer, each with its own
\* output path, started together
InitMixPair ==
    /\ mixer = NewMixer
    /\ \E l1 \in PairLists, l2 \in PairLists :
          margs = [c \in Calls |->
                     Some(MixCall(c, MixSetting(ORIGINAL, "out", -20, 0),
                                  IF c = 1 THEN l1 ELSE l2))]
    /\ mpc = [c \in Calls |-> "call"]
    /\ output_files = [c \in Calls |-> "absent"]
    /\ MixLocalsIdle
    /\ OthersIdleForMix

SpecMixPair == InitMixPair /\ [][NextMix]_vars


(***************************************************************************)
(* Properties of AudioMixer.mix_audio: SpecMix is one call, SpecMixPair    *)
(* two calls on one mixer.                                                 *)
(***************************************************************************)
MixCalled(c) == mpc[c] # "idle"
MixDone(c) == mpc[c] = "done"
MixReturned(c, value) == MixDone(c) /\ mix_result[c] = Some(value)
OriginalExists(c) == Exists(MixArg(c).original_audio_path)
OutputFile(c) == output_files[MixArg(c).output_path.file]

\* call c opened no clip, created no directory, looked at no segment and
\* exported nothing
NothingDone(c) ==
    /\ clips[c] = <<>>
    /\ clips_to_close[c] = <<>>
    /\ Dirname(MixArg(c).output_path) \notin made_dirs
    /\ IsNone(sorted_segments[c])
    /\ seg_index[c] = 0
    /\ final_composite_list[c] = <<>>
    /\ IsNone(final_audio[c])
    /\ OutputFile(c) = "absent"

\* C11: a call whose original audio file does not exist ends by raising
\* FileNotFoundError, returns nothing, and at no moment has it opened a
\* clip, created the output directory, examined a segment or exported.
C11_MissingOriginalRaisesFirst ==
    \A c \in Calls :
        (MixCalled(c) /\ ~OriginalExists(c)) =>
            /\ NothingDone(c)
            /\ IsNone(mix_result[c])
            /\ MixDone(c) => mix_raised[c] = "FileNotFoundError"

\* the call on a missing original has ended, and it had a narration to mix
C11_Witness ==
    /\ MixDone(1)
    /\ ~OriginalExists(1)
    /\ mix_raised[1] = "FileNotFoundError"
    /\ \E i \in DOMAIN MixArg(1).narrated_segments :
          MixArg(1).narrated_segments[i].narration_path
              = Some(NARRATION_SHORT)

\* C12: a call whose original audio file exists never raises: whatever
\* fails after the first test, the call returns False.
C12_NeverRaisesWhenOriginalExists ==
    \A c \in Calls :
        (MixCalled(c) /\ OriginalExists(c)) => mix_raised[c] = ""

\* the iterations of the loop that call c has completed
Completed(c) ==
    IF IsNone(sorted_segments[c]) THEN {} ELSE 1 .. (seg_index[c] - 1)

\* positions j, j + 1 of the composite list hold the attenuated background
\* under segment s and the narration of s, both placed at s.start_time
PlacedAt(c, j, s) ==
    LET background == clips[c][final_composite_list[c][j]]
        narration == clips[c][final_composite_list[c][j + 1]]
        d == DurationOf(Val(s.narration_path))
    IN /\ background.source = MixArg(c).original_audio_path
       /\ background.start = s.start_time
       /\ background.from = s.start_time
       /\ background.to = s.start_time + d
       /\ background.gain
             = VolumeFactor(MixArg(c).background_volume_reduction_db)
       /\ narration.source = Val(s.narration_path)
       /\ narration.start = s.start_time
       /\ narration.from = 0
       /\ narration.to = d

C14_CompositeDuration ==
    \A c \in Calls :
        MixReturned(c, TRUE) =>
            Val(final_audio[c]).duration
                = DurationOf(MixArg(c).original_audio_path)

\* a successful mix whose last narration runs past the original's end
C14_Witness ==
    /\ MixReturned(1, TRUE)
    /\ MaxEnd(clips[1], final_composite_list[1])
          > DurationOf(MixArg(1).original_audio_path)


\* what the composite plays of one clip: which file, which part of it, at
\* which offset, at which gain
Slice(source, from, to, at, gain) ==
    [source |-> source, from |-> from, to |-> to, at |-> at, gain |-> gain]

SliceOfClip(clip) ==
    Slice(clip.source, clip.from, clip.to, clip.start, clip.gain)

\* the ordered slice list call c has built
BuiltSlices(c) ==
    [j \in DOMAIN final_composite_list[c] |->
        SliceOfClip(clips[c][final_composite_list[c][j]])]

\* a segment with a narration file behind it
HasNarrationFile(s) ==
    /\ s.narration_path # None
    /\ s.narration_path # Some("")
    /\ s.narration_path # Some(NO_NARRATION)

\* the mix of a list, segment by segment in start order, from the cursor
\* on: whether every slice can be cut, and the slices.  Nothing can be cut
\* from the original beyond its end.
RECURSIVE MixPlan(_, _, _, _)
MixPlan(rest, cursor, original, volume_db) ==
    IF rest = <<>>
    THEN [ok |-> TRUE,
          slices |-> IF cursor < DurationOf(original)
                     THEN <<Slice(original, cursor, DurationOf(original),
                                  cursor, VolumeFactor(0))>>
                     ELSE <<>>]
    ELSE LET s == rest[1]
             t == s.start_time
             narration == Val(s.narration_path)
             d == DurationOf(narration)
             before == IF t > cursor
                       THEN <<Slice(original, cursor, t, cursor,
                                    VolumeFactor(0))>>
                       ELSE <<>>
             here == <<Slice(original, t, t + d, t, VolumeFactor(volume_db)),
                       Slice(narration, 0, d, t, VolumeFactor(0))>>
             then == MixPlan(Tail(rest), t + d, original, volume_db)
         IN IF t > DurationOf(original)
               \/ (t > cursor /\ cursor > DurationOf(original))
            THEN [ok |-> FALSE, slices |-> <<>>]
            ELSE [ok |-> then.ok, slices |-> before \o here \o then.slices]

\* the mix of a whole argument list by a call that runs alone and meets no
\* failure of the environment
MixAlone(a, list) ==
    MixPlan(SortedByStartTime(list), 0, a.original_audio_path,
            a.background_volume_reduction_db)

\* call c got as far as the walk over the segments and met no failure of
\* the environment
Undisturbed(c) ==
    /\ MixDone(c)
    /\ env_fault[c] = "none"
    /\ OriginalExists(c)
    /\ Dirname(MixArg(c).output_path) # ""

\* C15: segments whose narration_path is absent, empty or names no file
\* contribute nothing and fail nothing: the call returns what the mix of
\* the list without them returns, and when that is success, it has built
\* exactly that mix's slice list.
C15_UnusableSegmentsIgnored ==
    \A c \in Calls :
        Undisturbed(c) =>
            LET kept == SelectSeq(MixArg(c).narrated_segments,
                                  HasNarrationFile)
                alone == MixAlone(MixArg(c), kept)
            IN /\ mix_result[c] = Some(alone.ok)
               /\ alone.ok => BuiltSlices(c) = alone.slices

\* a successful mix of a list that holds a usable segment and an
\* unusable one
C15_Witness ==
    /\ MixReturned(1, TRUE)
    /\ Undisturbed(1)
    /\ \E i, j \in DOMAIN MixArg(1).narrated_segments :
          /\ ~HasNarrationFile(MixArg(1).narrated_segments[i])
          /\ HasNarrationFile(MixArg(1).narrated_segments[j])

\* C16: every narration clip placed in the composite carries the gain of
\* narration_volume_adjust_db, 10^(db/20): the unmodified clip at 0 dB,
\* the gain-adjusted clip otherwise.
C16_NarrationGain ==
    \A c \in Calls :
        MixCalled(c) =>
            \A j \in DOMAIN final_composite_list[c] :
                LET clip == clips[c][final_composite_list[c][j]]
                IN clip.source # MixArg(c).original_audio_path =>
                      clip.gain
                          = VolumeFactor(MixArg(c).narration_volume_adjust_db)

\* C17: a call that returned False has left nothing at its output path.
C17_NoOutputOnFailure ==
    \A c \in Calls :
        MixReturned(c, FALSE) => OutputFile(c) = "absent"


(***************************************************************************)
(* audio_mixer.py: AudioMixer.adjust_segment_timing (half seconds).        *)
(***************************************************************************)
Max(a, b) == IF a > b THEN a ELSE b

\* line 272
\* a faulty variant of AdjustedStart: the gap is left out
AdjustedStartWithoutGap(segment, last, gap) ==
    Max(segment.start_time, last)
AdjustedStart(segment, last, gap) == Max(segment.start_time, last + gap)

\* line 269: segment.get('narration_path') is falsy
WithoutNarration(segment) ==
    IsNone(segment.narration_path) \/ segment.narration_path = Some("")

\* lines 265-268: the locals, and the sorted list the loop walks
TimingStart ==
    /\ tpc = "start"
    /\ UNCHANGED notTim
    /\ adjusted_segments' = <<>>
    /\ timing_last_end' = 0
    /\ timing_sorted' = SortedByStartTime(segments)
    /\ timing_index' = 1
    /\ tpc' = "loop"
    /\ UNCHANGED <<segments, min_gap, timing_result>>

\* lines 268-280: one iteration
TimingStep ==
    /\ tpc = "loop"
    /\ timing_index <= Len(timing_sorted)
    /\ UNCHANGED notTim
    /\ LET segment == timing_sorted[timing_index]
           start_time == AdjustedStart(segment, timing_last_end, min_gap)
           end_time == segment.end_time
       IN IF ~WithoutNarration(segment) /\ start_time < end_time
          THEN /\ adjusted_segments' =
                     Append(adjusted_segments,
                            [segment EXCEPT !.start_time = start_time])
               /\ timing_last_end' = end_time
          ELSE UNCHANGED <<adjusted_segments, timing_last_end>>
    /\ timing_index' = timing_index + 1
    /\ UNCHANGED <<segments, min_gap, tpc, timing_sorted, timing_result>>

\* line 282
TimingReturn ==
    /\ tpc = "loop"
    /\ timing_index > Len(timing_sorted)
    /\ UNCHANGED notTim
    /\ timing_result' = Some(adjusted_segments)
    /\ tpc' = "done"
    /\ UNCHANGED <<segments, min_gap, timing_sorted, timing_index,
                   adjusted_segments, timing_last_end>>

NextTiming == TimingStart \/ TimingStep \/ TimingReturn

\* segments with a narration start anywhere on the clock and are up to two
\* half seconds long, or empty; segments without one are one half second
\* long
TimingSegments ==
    {NarratedSegment(s, s + n, Some(NARRATION_SHORT)) :
        s \in 0 .. MaxMixTime, n \in 0 .. 2}
    \cup {NarratedSegment(s, s + 1, None) : s \in 0 .. MaxMixTime}

TimingLists ==
    UNION {[1 .. n -> TimingSegments] : n \in 0 .. MaxNarrations}

InitTiming ==
    /\ segments \in TimingLists
    /\ min_gap \in 0 .. MaxGap
    /\ tpc = "start"
    /\ TimLocalsIdle
    /\ analysis_result = None
    /\ pc = "idle"
    /\ SegIdle
    /\ VadIdle
    /\ MixIdle
    /\ MovIdle
    /\ DurIdle
    /\ NoEarlier

SpecTiming == InitTiming /\ [][NextTiming]_vars

TimingReturned == tpc = "done" /\ ~IsNone(timing_result)

\* C18: what adjust_segment_timing returns is sorted by start_time, every
\* returned segment starts at least min_gap after the end of the one
\* returned before it, and every returned segment starts before it ends.
C18_TimingResult ==
    TimingReturned =>
        LET r == Val(timing_result)
        IN /\ \A i \in DOMAIN r : r[i].start_time < r[i].end_time
           /\ \A i \in 1 .. (Len(r) - 1) :
                 /\ r[i].start_time <= r[i + 1].start_time
                 /\ r[i + 1].start_time - r[i].end_time >= min_gap

\* two segments were returned, the second one moved to keep the gap
C18_Witness ==
    /\ TimingReturned
    /\ min_gap > 0
    /\ Len(Val(timing_result)) = 2
    /\ \E i \in DOMAIN segments :
          /\ segments[i].end_time = Val(timing_result)[2].end_time
          /\ segments[i].start_time < Val(timing_result)[2].start_time


(***************************************************************************)
(* main_orchestrator.py: process_movie, with the files its steps read and  *)
(* write.  What the collaborators compute is an input: the scenes the      *)
(* describer returns for the movie.  Scene start times are half seconds.   *)
(***************************************************************************)
\* a file: its directory, what it holds, and for a narration the start
\* time its name is made of ('narration_%.2f.wav', one name per half
\* second) and whether it is the '_adjusted' copy
File(dir, holds, start, adjusted) ==
    [dir |-> dir, holds |-> holds, start |-> start, adjusted |-> adjusted]

\* tempfile.gettempdir(): one value for the whole process
SystemTemp == "/tmp"

\* narration_generator.py, lines 220-221: process_movie passes no
\* base_temp_dir
NarrationDir(base_temp_dir) ==
    (IF IsNone(base_temp_dir) THEN SystemTemp ELSE Val(base_temp_dir))
        \o "/movie2audio_narrations"

\* main_orchestrator.py, line 141
ExtractedAudio(config) == File(config.TEMP_DIR, "extracted_audio", 0, FALSE)

\* narration_generator.py, lines 225-226
NarrationFile(base_temp_dir, scene) ==
    File(NarrationDir(base_temp_dir), "narration", scene.start_time, FALSE)

\* narration_generator.py, lines 97-98
AdjustedFile(file) == [file EXCEPT !.adjusted = TRUE]

Touch(file, p, how) == [file |-> file, by |-> p, how |-> how]

MovieArg(p) == Val(movie_args[p])

MovieReturn(p, value) ==
    /\ movie_result' = Upd(movie_result, p, Some(value))
    /\ movie_pc' = Upd(movie_pc, p, "done")

MovieGoto(p, label) ==
    /\ movie_pc' = Upd(movie_pc, p, label)
    /\ UNCHANGED movie_result

\* lines 130-132; the except clause of line 212 turns the error into False
MovieCheck(p) ==
    /\ movie_pc[p] = "start"
    /\ UNCHANGED notMov
    /\ UNCHANGED <<movie_args, movie_scenes, movie_index, mixer_call, touched>>
    /\ IF ~MovieArg(p).input_exists
       THEN MovieReturn(p, FALSE)
       ELSE MovieGoto(p, "extract")

\* lines 141-142: extract_audio_from_mp4 writes audio_path, or fails
MovieExtract(p) ==
    /\ movie_pc[p] = "extract"
    /\ UNCHANGED notMov
    /\ UNCHANGED <<movie_args, movie_scenes, movie_index, mixer_call>>
    /\ touched' = touched \cup
                    {Touch(File(MovieArg(p).input_path, "movie", 0, FALSE),
                           p, "read"),
                     Touch(ExtractedAudio(MovieArg(p).config), p, "write")}
    /\ \E fails \in BOOLEAN :
          IF fails THEN MovieReturn(p, FALSE) ELSE MovieGoto(p, "detect")

\* lines 149-167: the VAD reads audio_path; with no segment found the
\* invocation is over, else the describer reads the movie
MovieDescribe(p) ==
    /\ movie_pc[p] = "detect"
    /\ UNCHANGED notMov
    /\ UNCHANGED <<movie_args, movie_index, mixer_call>>
    /\ touched' = touched \cup
                    {Touch(ExtractedAudio(MovieArg(p).config), p, "read")}
    /\ IF MovieArg(p).scenes = <<>>
       THEN /\ MovieReturn(p, TRUE)
            /\ UNCHANGED movie_scenes
       ELSE /\ movie_scenes' = Upd(movie_scenes, p, MovieArg(p).scenes)
            /\ MovieGoto(p, "narrate")

\* line 174, the call; narration_generator.py, lines 210-244: one scene.
\* The synthesis writes the narration file, the duration adjustment reads
\* it and may write the adjusted copy next to it.
MovieNarrate(p) ==
    /\ movie_pc[p] = "narrate"
    /\ movie_index[p] < Len(movie_scenes[p])
    /\ UNCHANGED notMov
    /\ UNCHANGED <<movie_args, movie_pc, movie_result, mixer_call>>
    /\ movie_index' = Upd(movie_index, p, movie_index[p] + 1)
    /\ \E fails \in BOOLEAN, adjusted \in BOOLEAN :
          LET i == movie_index[p] + 1
              scene == movie_scenes[p][i]
              output_path == NarrationFile(None, scene)
              done(path) ==
                  Upd(movie_scenes, p,
                      [movie_scenes[p] EXCEPT
                          ![i] = [scene EXCEPT !.narration_path = path]])
          IN IF ~scene.description
             THEN /\ movie_scenes' = done(None)
                  /\ UNCHANGED touched
             ELSE IF fails
             THEN /\ movie_scenes' = done(None)
                  /\ touched' = touched \cup {Touch(output_path, p, "write")}
             ELSE /\ movie_scenes' = done(Some(output_path))
                  /\ touched' =
                        touched \cup
                          {Touch(output_path, p, "write"),
                           Touch(output_path, p, "read")} \cup
                          (IF adjusted
                           THEN {Touch(AdjustedFile(output_path), p, "write")}
                           ELSE {})

\* `x or default` of lines 186-187: Python's `or` yields its right operand
\* when the left one is falsy, and both None and 0.0 are falsy
OrElse(x, default) ==
    IF IsNone(x) \/ Val(x) = 0 THEN default ELSE Val(x)

\* load_config, lines 53-54: the values used when the environment sets none
DEFAULT_BACKGROUND_VOLUME_REDUCTION_DB == -15
DEFAULT_NARRATION_VOLUME_ADJUST_DB == 0

\* lines 186-208: the two volumes are chosen, mix_audio reads audio_path and
\* the narration files and writes output_path
MovieMix(p) ==
    /\ movie_pc[p] = "narrate"
    /\ movie_index[p] = Len(movie_scenes[p])
    /\ UNCHANGED notMov
    /\ UNCHANGED <<movie_args, movie_scenes, movie_index>>
    /\ mixer_call' =
          [mixer_call EXCEPT ![p] =
              Some([background_volume_reduction_db |->
                        OrElse(MovieArg(p).background_reduction_db,
                               MovieArg(p).config
                                   .BACKGROUND_VOLUME_REDUCTION_DB),
                    narration_volume_adjust_db |->
                        OrElse(MovieArg(p).narration_adjust_db,
                               MovieArg(p).config
                                   .NARRATION_VOLUME_ADJUST_DB)])]
    /\ touched' =
          touched \cup
            {Touch(ExtractedAudio(MovieArg(p).config), p, "read"),
             Touch(File(MovieArg(p).output_path, "mix", 0, FALSE), p,
                   "write")} \cup
            {Touch(Val(movie_scenes[p][i].narration_path), p, "read") :
                i \in {j \in DOMAIN movie_scenes[p] :
                          ~IsNone(movie_scenes[p][j].narration_path)}}
    /\ \E success \in BOOLEAN : MovieReturn(p, success)

NextMovie ==
    \E p \in Calls :
        \/ MovieCheck(p)
        \/ MovieExtract(p)
        \/ MovieDescribe(p)
        \/ MovieNarrate(p)
        \/ MovieMix(p)

\* a scene the describer returns: description is whether it found one
DescribedScene(s, d) ==
    [start_time |-> s, description |-> d, narration_path |-> None]

\* the scenes of one movie start at different times, in order
SceneLists ==
    {list \in UNION {[1 .. n ->
                        {DescribedScene(s, d) :
                            s \in 0 .. MaxMixTime, d \in BOOLEAN}] :
                     n \in 0 .. MaxNarrations} :
        Ascending(list)}

\* test_concurrent_processing: invocation p has its own movie, its own
\* output path and its own TEMP_DIR
MovieCall(p, exists, list) ==
    [input_path |-> IF p = 1 THEN "movie_0.mp4" ELSE "movie_1.mp4",
     output_path |-> IF p = 1 THEN "output_0.mp3" ELSE "output_1.mp3",
     config |-> [TEMP_DIR |-> IF p = 1 THEN "temp_0" ELSE "temp_1",
                 BACKGROUND_VOLUME_REDUCTION_DB |->
                     DEFAULT_BACKGROUND_VOLUME_REDUCTION_DB,
                 NARRATION_VOLUME_ADJUST_DB |->
                     DEFAULT_NARRATION_VOLUME_ADJUST_DB],
     background_reduction_db |-> None,
     narration_adjust_db |-> None,
     input_exists |-> exists,
     scenes |-> list]

InitMovie ==
    /\ \E e1 \in BOOLEAN, e2 \in BOOLEAN, l1 \in SceneLists,
          l2 \in SceneLists :
          movie_args = [p \in Calls |->
                          Some(MovieCall(p, IF p = 1 THEN e1 ELSE e2,
                                         IF p = 1 THEN l1 ELSE l2))]
    /\ movie_pc = [p \in Calls |-> "start"]
    /\ movie_scenes = [p \in Calls |-> <<>>]
    /\ movie_index = [p \in Calls |-> 0]
    /\ movie_result = [p \in Calls |-> None]
    /\ mixer_call = [p \in Calls |-> None]
    /\ touched = {}
    /\ analysis_result = None
    /\ pc = "idle"
    /\ SegIdle
    /\ VadIdle
    /\ MixIdle
    /\ TimIdle
    /\ DurIdle
    /\ NoEarlier

SpecMovie == InitMovie /\ [][NextMovie]_vars

Intermediate(file) == file.holds \in {"extracted_audio", "narration"}

\* C19: two concurrent invocations with different input paths, output
\* paths and TEMP_DIRs never touch the same intermediate file: every
\* extracted-audio or narration file is read and written by one invocation
\* only.
C19_OwnIntermediateFiles ==
    \A t1 \in touched, t2 \in touched :
        (t1.file = t2.file /\ Intermediate(t1.file)) => t1.by = t2.by


\* C20: two calls of mix_audio on one mixer, each with its own output path,
\* do not disturb each other: under every interleaving a call that meets
\* no failure of the environment succeeds and has built the slice list it
\* builds when it runs alone, and the mixer's fields stay as __init__ set
\* them.
C20_ConcurrentCallsIndependent ==
    /\ mixer = NewMixer
    /\ \A c \in Calls :
          Undisturbed(c) =>
              LET alone == MixAlone(MixArg(c), MixArg(c).narrated_segments)
              IN /\ mix_result[c] = Some(TRUE)
                 /\ alone.ok
                 /\ BuiltSlices(c) = alone.slices

\* both calls have succeeded, on different lists of narrations
C20_Witness ==
    /\ \A c \in Calls : MixReturned(c, TRUE) /\ Undisturbed(c)
    /\ MixArg(1).narrated_segments # MixArg(2).narrated_segments
    /\ \A c \in Calls : MixArg(c).narrated_segments # <<>>


(***************************************************************************)
(* The merge loop of segment_scenes (lines 25-35) applied to its own       *)
(* result.                                                                 *)
(***************************************************************************)

\* lines 25-28 once more, on the list the loop has just produced: the
\* argument of the first pass is kept in `earlier`
MergeAgain ==
    /\ pc = "walk"
    /\ idx = 1
    /\ final_scenes = <<>>
    /\ earlier = <<>>
    /\ earlier' = <<non_language_segments>>
    /\ non_language_segments' = merged_segments
    /\ merged_segments' = <<>>
    /\ current_segment' = Some(merged_segments[1])
    /\ idx' = 2
    /\ pc' = "merge"
    /\ UNCHANGED <<analysis_result, final_scenes, scene_id, last_end, result,
                   raised>>
    /\ UNCHANGED <<vadVars, mixVars, timVars, movVars, durVars>>

NextMerge ==
    \/ SegStart
    \/ SegMergeStep
    \/ SegMergeEnd
    \/ MergeAgain

\* sorted lists of one to MaxIntervals + 1 well-formed numeric intervals
MergeLists ==
    {l \in UNION {[1 .. n -> {t \in Tuples : WellFormed(t)}] :
                     n \in 1 .. MaxIntervals + 1} :
        \A i \in 1 .. Len(l) - 1 : l[i].start <= l[i + 1].start}

InitMerge ==
    /\ \E nls \in MergeLists :
          analysis_result =
              Some(AnalysisResult(<<Scene(0, 0, MaxTime, "Full duration")>>,
                                  nls, Some(<<>>)))
    /\ pc = "start"
    /\ SegIdle
    /\ VadIdle
    /\ MixIdle
    /\ TimIdle
    /\ MovIdle
    /\ DurIdle
    /\ NoEarlier

SpecMerge == InitMerge /\ [][NextMerge]_vars

\* the second pass of the merge loop is over
MergedTwice == pc = "walk" /\ earlier # <<>>

\* C21: merging a sorted interval list with the threshold of 2.0 and merging
\* the result again yields the list the first merge produced
\* (non_language_segments holds the second pass's argument, which is the
\* first pass's result)
C21_MergeIdempotent ==
    MergedTwice => merged_segments = non_language_segments

\* three intervals were merged into two, and the two were merged again
C21_Witness ==
    /\ MergedTwice
    /\ Len(earlier[1]) = 3
    /\ Len(non_language_segments) = 2
    /\ Len(merged_segments) = 2


(***************************************************************************)
(* calculate_inverse_segments applied to its own result, against the same  *)
(* total duration.                                                         *)
(***************************************************************************)

\* the function is called again with the list it has just returned: the
\* arguments of the passes so far are kept in `earlier`
InverseAgain ==
    /\ vpc = "done"
    /\ Len(earlier) < 2
    /\ earlier' = Append(earlier, speech_segments)
    /\ speech_segments' = Val(vad_result)
    /\ vad_result' = None
    /\ vpc' = "inverse"
    /\ UNCHANGED <<entry, file_exists, total_duration, sorted_speech, k,
                   current_time, non_speech, vad_raised>>
    /\ UNCHANGED <<segVars, mixVars, timVars, movVars, durVars>>

NextRoundTrip == InverseStart \/ InverseStep \/ InverseEnd \/ InverseAgain

\* the list is sorted and no two of its intervals overlap
DisjointSorted(segs) ==
    \A i \in 1 .. Len(segs) - 1 : segs[i].end <= segs[i + 1].start

\* sorted, pairwise disjoint speech inside [0, D]
InitRoundTrip ==
    /\ entry = "calculate_inverse_segments"
    /\ file_exists = TRUE
    /\ total_duration \in 0 .. MaxDuration
    /\ speech_segments \in SpeechLists
    /\ DisjointSorted(speech_segments)
    /\ Within(speech_segments, total_duration)
    /\ vpc = "inverse"
    /\ VadLocalsIdle
    /\ analysis_result = None
    /\ pc = "idle"
    /\ SegIdle
    /\ MixIdle
    /\ TimIdle
    /\ MovIdle
    /\ DurIdle
    /\ NoEarlier

SpecRoundTrip == InitRoundTrip /\ [][NextRoundTrip]_vars

\* the third pass has returned: earlier[1] is I, earlier[2] is the inverse
\* of I, speech_segments is the inverse of the inverse and vad_result the
\* inverse of that
InvertedThrice == vpc = "done" /\ Len(earlier) = 2

\* C22: for sorted, pairwise disjoint speech I inside [0, D], the inverse of
\* the inverse of I, both against D, covers exactly the time I covers, and
\* inverting it once more gives the inverse of I again
C22_InverseRoundTrip ==
    InvertedThrice =>
        /\ \A c \in 0 .. MaxDuration :
              CellIn(c, speech_segments) <=> CellIn(c, earlier[1])
        /\ Val(vad_result) = earlier[2]

\* two separate speech intervals with a gap before, between and after them
C22_Witness ==
    /\ InvertedThrice
    /\ Len(earlier[1]) = 2
    /\ Len(earlier[2]) = 3
    /\ speech_segments = earlier[1]


(***************************************************************************)
(* narration_generator.py: NarrationGenerator.adjust_audio_duration.       *)
(* Durations are in tenths of a second; speed factors and the adjusted     *)
(* duration are fractions, compared by cross-multiplication.               *)
(***************************************************************************)
Frac(n, d) == [num |-> n, den |-> d]

Abs(x) == IF x < 0 THEN -x ELSE x

\* line 45: the default of max_speed_change, 0.3, in tenths
MAX_SPEED_CHANGE == 3

\* line 82
SpeedFactor(current, target) == Frac(current, target)

\* line 86: abs(1 - speed_factor) > max_speed_change
ExceedsLimit(sf) == 10 * Abs(sf.den - sf.num) > MAX_SPEED_CHANGE * sf.den

\* line 88
Clamped(sf) ==
    IF sf.num > sf.den
    THEN Frac(10 + MAX_SPEED_CHANGE, 10)
    ELSE Frac(10 - MAX_SPEED_CHANGE, 10)

\* line 92: abs(speed_factor - 1.0) < 1e-6; two durations of whole tenths
\* that differ give a factor much farther from 1 than that
EffectivelyOne(sf) == sf.num = sf.den

\* line 102: the factor handed to speedx is 1 / speed_factor
SpeedxFactor(sf) == Frac(sf.den, sf.num)

\* moviepy's speedx plays the clip `factor` times as fast: the new duration
\* is duration / factor
Speedx(duration, factor) == Frac(duration * factor.den, factor.num)

DurRaise(e) ==
    /\ dpc' = "done"
    /\ duration_raised' = e
    /\ UNCHANGED <<speed_factor, adjusted_duration, duration_result>>

\* lines 64-69: the input validation
DurCheck ==
    /\ dpc = "start"
    /\ UNCHANGED notDur
    /\ UNCHANGED <<audio_exists, current_duration, target_duration>>
    /\ IF ~audio_exists
       THEN DurRaise("FileNotFoundError")
       ELSE IF target_duration <= 0
       THEN DurRaise("ValueError")
       ELSE /\ dpc' = "load"
            /\ UNCHANGED <<speed_factor, adjusted_duration, duration_result,
                           duration_raised>>

\* lines 76-80: the file is loaded; a failure of the load and the ValueError
\* of line 80 both reach the except clauses of lines 111-116
DurLoad ==
    /\ dpc = "load"
    /\ UNCHANGED notDur
    /\ UNCHANGED <<audio_exists, current_duration, target_duration>>
    /\ \E fails \in BOOLEAN :
          IF fails \/ current_duration <= 0
          THEN DurRaise("RuntimeError")
          ELSE /\ dpc' = "speed"
               /\ UNCHANGED <<speed_factor, adjusted_duration,
                              duration_result, duration_raised>>

\* lines 82-94: the speed factor, its limit, and the early return
DurSpeed ==
    /\ dpc = "speed"
    /\ UNCHANGED notDur
    /\ UNCHANGED <<audio_exists, current_duration, target_duration>>
    /\ LET initial == SpeedFactor(current_duration, target_duration)
           sf == IF ExceedsLimit(initial) THEN Clamped(initial) ELSE initial
       IN  /\ speed_factor' = Some(sf)
           /\ IF EffectivelyOne(sf)
              THEN /\ dpc' = "done"
                   /\ duration_result' = "audio_path"
              ELSE /\ dpc' = "apply"
                   /\ UNCHANGED duration_result
    /\ UNCHANGED <<adjusted_duration, duration_raised>>

\* lines 97-108: the adjusted clip is built and written; the closes of the
\* finally clause change nothing here and their failures are swallowed
DurApply ==
    /\ dpc = "apply"
    /\ UNCHANGED notDur
    /\ UNCHANGED <<audio_exists, current_duration, target_duration,
                   speed_factor>>
    /\ \E fails \in BOOLEAN :
          IF fails
          THEN /\ dpc' = "done"
               /\ duration_raised' = "RuntimeError"
               /\ UNCHANGED <<adjusted_duration, duration_result>>
          ELSE /\ dpc' = "done"
               /\ adjusted_duration' =
                     Some(Speedx(current_duration,
                                 SpeedxFactor(Val(speed_factor))))
               /\ duration_result' = "adjusted_path"
               /\ UNCHANGED duration_raised

NextDuration == DurCheck \/ DurLoad \/ DurSpeed \/ DurApply

InitDuration ==
    /\ audio_exists \in BOOLEAN
    /\ current_duration \in 0 .. MaxAudioLength
    /\ target_duration \in 0 .. MaxAudioLength
    /\ ~audio_exists => current_duration = 0
    /\ dpc = "start"
    /\ DurLocalsIdle
    /\ analysis_result = None
    /\ pc = "idle"
    /\ SegIdle
    /\ VadIdle
    /\ MixIdle
    /\ TimIdle
    /\ MovIdle
    /\ NoEarlier

SpecDuration == InitDuration /\ [][NextDuration]_vars

DurReturned == dpc = "done" /\ duration_result # ""

\* the duration of the audio at the returned path
ReturnedDuration ==
    IF duration_result = "adjusted_path"
    THEN Val(adjusted_duration)
    ELSE Frac(current_duration, 1)

\* the speed ratio applied to the audio: 1 when the input is returned as is
AppliedRatio ==
    IF duration_result = "adjusted_path"
    THEN SpeedxFactor(Val(speed_factor))
    ELSE Frac(1, 1)

\* C23: when adjust_audio_duration returns, the returned audio is no farther
\* from target_duration than the input was, it lasts exactly target_duration
\* when the required speed change is within 30%, and the speed ratio applied
\* lies in [0.7, 1.3]
C23_AdjustTowardsTarget ==
    DurReturned =>
        LET f == ReturnedDuration
            r == AppliedRatio
        IN  /\ Abs(f.num - target_duration * f.den)
                  <= Abs(current_duration - target_duration) * f.den
            /\ ~ExceedsLimit(SpeedFactor(current_duration, target_duration))
                  => f.num = target_duration * f.den
            /\ 10 * r.num >= (10 - MAX_SPEED_CHANGE) * r.den
            /\ 10 * r.num <= (10 + MAX_SPEED_CHANGE) * r.den


(***************************************************************************)
(* Properties of audio_mixer.py: the release of the clips, under SpecMix.  *)
(***************************************************************************)

\* the clips call c opened that no close() call has completed on
Unclosed(c) == {id \in DOMAIN clips[c] : clips[c][id].closes = 0}

\* C24: when mix_audio has returned, True or False, every clip the call
\* opened (the original, the slices, the narrations, the attenuated slices)
\* has been closed, on the error path as after a successful export
C24_AllClipsClosedOnReturn ==
    \A c \in Calls :
        (MixReturned(c, TRUE) \/ MixReturned(c, FALSE)) => Unclosed(c) = {}

\* the export of call c succeeded and a close() call after it raised
ReleaseFailed(c) ==
    MixDone(c) /\ env_fault[c] \in {"close_composite", "close_clip"}

\* C25: a close() that raises after a successful export, the composite's or
\* a tracked clip's, leaves the outcome alone: mix_audio returns True and
\* calls close() on every other resource (a failing clip is the only one
\* that may be left unclosed; after a failing composite none is)
C25_ReleaseFailureKeepsOutcome ==
    \A c \in Calls :
        ReleaseFailed(c) =>
            /\ MixReturned(c, TRUE)
            /\ Cardinality(Unclosed(c))
                  <= (IF env_fault[c] = "close_clip" THEN 1 ELSE 0)

\* C26: after a mix_audio that returned True with no failure on the way,
\* every clip the call opened and the composite have been closed exactly
\* once, whatever background_volume_reduction_db is, 0 dB included
C26_ClosedExactlyOnce ==
    \A c \in Calls :
        (MixReturned(c, TRUE) /\ env_fault[c] = "none") =>
            /\ \A id \in DOMAIN clips[c] : clips[c][id].closes = 1
            /\ Val(final_audio[c]).closes = 1

\* C26 away from 0 dB
ClosedExactlyOnceWhenAttenuated ==
    \A c \in Calls :
        (/\ MixReturned(c, TRUE)
         /\ env_fault[c] = "none"
         /\ MixArg(c).background_volume_reduction_db # 0) =>
            /\ \A id \in DOMAIN clips[c] : clips[c][id].closes = 1
            /\ Val(final_audio[c]).closes = 1

\* C25 when it is a tracked clip whose close() raises
ClipReleaseFailureKeepsOutcome ==
    \A c \in Calls :
        (MixDone(c) /\ env_fault[c] = "close_clip") =>
            /\ MixReturned(c, TRUE)
            /\ Cardinality(Unclosed(c)) <= 1

\* C24 after a successful export with no failing close()
AllClipsClosedAfterExport ==
    \A c \in Calls :
        (MixReturned(c, TRUE) /\ env_fault[c] = "none") => Unclosed(c) = {}


(***************************************************************************)
(* Properties of audio_mixer.py: what the composite takes from the         *)
(* original audio, under SpecMix.                                          *)
(***************************************************************************)

\* call c has built its composite (line 218)
Composed(c) == ~IsNone(final_audio[c])

\* the positions of the composite list that hold slices of the original
OriginalSlices(c) ==
    {j \in DOMAIN final_composite_list[c] :
        clips[c][final_composite_list[c][j]].source
            = MixArg(c).original_audio_path}

\* the positions that hold an attenuated background slice: the next position
\* holds the narration laid over it (lines 204-205)
BackgroundSlices(c) ==
    {j \in OriginalSlices(c) :
        /\ j + 1 \in DOMAIN final_composite_list[c]
        /\ j + 1 \notin OriginalSlices(c)}

\* the slices of the original that play during the half second
\* [cell, cell + 1], each playing what the original holds at that time
CopiesAt(c, cell) ==
    {j \in OriginalSlices(c) :
        LET clip == clips[c][final_composite_list[c][j]]
        IN  /\ clip.from = clip.start
            /\ clip.start <= cell
            /\ cell + 1 <= ClipEnd(clip)}

\* every instant of [0, D] is played from exactly one slice
OneCopyOfOriginal(c) ==
    \A cell \in 0 .. DurationOf(MixArg(c).original_audio_path) - 1 :
        Cardinality(CopiesAt(c, cell)) = 1

\* the values last_end_time took (line 208) are the ends of the background
\* slices, in the order of the walk: none lies before the one before it
CursorNeverBack(c) ==
    \A i \in BackgroundSlices(c), j \in BackgroundSlices(c) :
        i < j => ClipEnd(clips[c][final_composite_list[c][i]])
                    <= ClipEnd(clips[c][final_composite_list[c][j]])

\* C27: for every list of usable segments, once the composite is built the
\* slices taken from the original (gaps, attenuated backgrounds, tail) do
\* not overlap and cover [0, D] exactly once, and last_end_time never moved
\* backwards during the walk
C27_OriginalPlayedOnce ==
    \A c \in Calls :
        Composed(c) => OneCopyOfOriginal(c) /\ CursorNeverBack(c)

\* no narration of the sorted list runs into the next segment
NarrationsApart(c) ==
    LET list == Val(sorted_segments[c])
    IN  \A i \in 1 .. Len(list) - 1 :
            list[i].start_time + DurationOf(Val(list[i].narration_path))
                <= list[i + 1].start_time

\* C27 for narrations that end before the next segment starts
OriginalPlayedOnceWhenApart ==
    \A c \in Calls :
        (Composed(c) /\ NarrationsApart(c)) =>
            OneCopyOfOriginal(c) /\ CursorNeverBack(c)


(***************************************************************************)
(* Properties of audio_mixer.py: adjust_segment_timing moves a segment     *)
(* only as far as needed, under SpecTiming.                                *)
(***************************************************************************)

\* the segments kept from a sorted list when each one is moved only as far
\* as the previously kept one requires; kept_end is the end_time of the
\* previously kept segment, None while there is none
RECURSIVE MovedAsNeeded(_, _, _)
MovedAsNeeded(rest, kept_end, gap) ==
    IF rest = <<>>
    THEN <<>>
    ELSE LET segment == rest[1]
             start_time == IF IsNone(kept_end)
                           THEN segment.start_time
                           ELSE Max(segment.start_time, Val(kept_end) + gap)
         IN IF ~WithoutNarration(segment) /\ start_time < segment.end_time
            THEN <<[segment EXCEPT !.start_time = start_time]>>
                 \o MovedAsNeeded(Tail(rest), Some(segment.end_time), gap)
            ELSE MovedAsNeeded(Tail(rest), kept_end, gap)

\* C28: each kept segment's adjusted start_time is the larger of its own
\* start_time and the previously kept segment's end_time + min_gap, a
\* segment with no kept segment before it keeps its start_time, and a
\* dropped segment has no effect on the segments after it
C28_MovedOnlyAsNeeded ==
    TimingReturned =>
        Val(timing_result) = MovedAsNeeded(timing_sorted, None, min_gap)

\* C28 when the first segment with a narration starts min_gap or more after 0
MovedOnlyAsNeededAfterGap ==
    (/\ TimingReturned
     /\ \A i \in DOMAIN timing_sorted :
           WithoutNarration(timing_sorted[i])
               \/ timing_sorted[i].start_time >= min_gap) =>
        Val(timing_result) = MovedAsNeeded(timing_sorted, None, min_gap)


(***************************************************************************)
(* Properties of narration_generator.py as process_movie uses it, under    *)
(* SpecMovie.                                                              *)
(***************************************************************************)

\* invocation p wrote a duration-adjusted copy of the narration file
AdjustedBy(p, file) == Touch(AdjustedFile(file), p, "write") \in touched

\* C29: after process_scenes, a scene whose narration was synthesized and
\* then duration-adjusted into a new file names the adjusted file in its
\* narration_path, so that the mixer loads the adjusted narration
C29_NarrationPathIsAdjusted ==
    \A p \in Calls :
        \A i \in DOMAIN movie_scenes[p] :
            LET path == movie_scenes[p][i].narration_path
            IN  (~IsNone(path) /\ AdjustedBy(p, Val(path))) =>
                    Val(path).adjusted


(***************************************************************************)
(* process_movie called once with explicit volumes: which volumes reach    *)
(* mix_audio.                                                              *)
(***************************************************************************)

\* the dB values a caller passes, None when it passes none
VolumeArguments == {None, Some(0), Some(-20), Some(3)}

\* one invocation, the second stays idle; the configuration holds the
\* defaults of load_config or values set in the environment
InitVolume ==
    /\ \E exists \in BOOLEAN, list \in SceneLists,
          background \in VolumeArguments, narration \in VolumeArguments,
          configured_background
              \in {DEFAULT_BACKGROUND_VOLUME_REDUCTION_DB, -10},
          configured_narration \in {DEFAULT_NARRATION_VOLUME_ADJUST_DB, 3} :
          movie_args =
              [p \in Calls |->
                  IF p = 1
                  THEN Some([MovieCall(1, exists, list) EXCEPT
                               !.background_reduction_db = background,
                               !.narration_adjust_db = narration,
                               !.config.BACKGROUND_VOLUME_REDUCTION_DB =
                                   configured_background,
                               !.config.NARRATION_VOLUME_ADJUST_DB =
                                   configured_narration])
                  ELSE None]
    /\ movie_pc = [p \in Calls |-> IF p = 1 THEN "start" ELSE "idle"]
    /\ movie_scenes = [p \in Calls |-> <<>>]
    /\ movie_index = [p \in Calls |-> 0]
    /\ movie_result = [p \in Calls |-> None]
    /\ mixer_call = [p \in Calls |-> None]
    /\ touched = {}
    /\ analysis_result = None
    /\ pc = "idle"
    /\ SegIdle
    /\ VadIdle
    /\ MixIdle
    /\ TimIdle
    /\ DurIdle
    /\ NoEarlier

SpecVolume == InitVolume /\ [][NextMovie]_vars

\* the volume the caller supplied, the configured one when it supplied none
SuppliedOrConfigured(x, configured) ==
    IF IsNone(x) THEN configured ELSE Val(x)

\* C30: mix_audio gets the background_reduction_db and narration_adjust_db
\* the caller supplied, whatever their value, 0.0 included; the configured
\* values are used only for an argument that is None
C30_SuppliedVolumesPassed ==
    \A p \in Calls :
        ~IsNone(mixer_call[p]) =>
            /\ Val(mixer_call[p]).background_volume_reduction_db
                  = SuppliedOrConfigured(
                        MovieArg(p).background_reduction_db,
                        MovieArg(p).config.BACKGROUND_VOLUME_REDUCTION_DB)
            /\ Val(mixer_call[p]).narration_volume_adjust_db
                  = SuppliedOrConfigured(
                        MovieArg(p).narration_adjust_db,
                        MovieArg(p).config.NARRATION_VOLUME_ADJUST_DB)

\* C30 for callers that pass no 0.0
SuppliedNonZeroVolumesPassed ==
    \A p \in Calls :
        (/\ ~IsNone(mixer_call[p])
         /\ MovieArg(p).background_reduction_db # Some(0)
         /\ MovieArg(p).narration_adjust_db # Some(0)) =>
            /\ Val(mixer_call[p]).background_volume_reduction_db
                  = SuppliedOrConfigured(
                        MovieArg(p).background_reduction_db,
                        MovieArg(p).config.BACKGROUND_VOLUME_REDUCTION_DB)
            /\ Val(mixer_call[p]).narration_volume_adjust_db
                  = SuppliedOrConfigured(
                        MovieArg(p).narration_adjust_db,
                        MovieArg(p).config.NARRATION_VOLUME_ADJUST_DB)

====
